---- MODULE Spec2Model ----
(***************************************************************************)
(* Request signing and replay protection of signature_auth/middleware.py:  *)
(* SignatureAuthenticationMiddleware with its two nonce stores (the Django *)
(* cache and OptimizedInMemoryNonceStore), run by several worker threads.  *)
(*                                                                         *)
(* Time is counted in units of 60 seconds: the grace period of 60 s and    *)
(* the cleanup interval of 60 s are one unit each, and the configured      *)
(* validity window SIGNATURE_AUTH_VALIDITY_WINDOW is one unit.             *)
(* Strings of the program are strings here; a header that is absent or     *)
(* empty (both are falsy in `if not x`) is the string "".                  *)
(* HMAC-SHA256 is modelled as a collision-free keyed hash: the digest of   *)
(* (key, message) is the pair itself, so two digests are equal exactly     *)
(* when key and message are equal.                                         *)
(***************************************************************************)
EXTENDS Integers, Sequences, FiniteSets, TLC

\* ------------------------------------------------------------------ bounds
\* The clock runs from 0 to MaxTime.
MaxTime == 3

\* ------------------------------------------------------- configuration
\* SIGNATURE_AUTH_VALIDITY_WINDOW (default 300 s), here 1 unit of 60 s.
signature_window == 1
\* The grace added to the window when a nonce is recorded (60 s = 1 unit).
grace_period == 1
\* OptimizedInMemoryNonceStore._cleanup_interval (60 s = 1 unit).
cleanup_interval == 1
\* SIGNATURE_AUTH_FALLBACK_MAX_SIZE as configured here.
fallback_max_size == 1

secret_key == "secret"
Keys == {secret_key, "wrong"}

\* The nonces the clients draw from
Nonces == {"n1", "n2"}
\* The worker threads that handle requests in parallel
Workers == {1, 2}

Abs(x) == IF x < 0 THEN 0 - x ELSE x
Max(a, b) == IF a >= b THEN a ELSE b

VARIABLES
    now,              \* time.time(), in units
    cache_available,  \* self.cache_available: the Django cache is the nonce store
    cache,            \* the Django cache: key -> the time its TTL runs out
    fallback_store,   \* OptimizedInMemoryNonceStore: _store, _access_times, _last_cleanup
    req,              \* per worker: the request it handles and how far it got
    accepted,         \* history: nonce -> the last request authenticated with it: its
                      \* timestamp, and whether the store took the record
    settings,         \* the Django settings read by _load_config, and how far startup got
    last_eviction,    \* history: the in-process store before and after the last eviction
    last_call         \* history: the last call made to the in-process store on its own

vars == <<now, cache_available, cache, fallback_store, req, accepted, settings, last_eviction, last_call>>

\* =================================================================
\* python dict, insertion-ordered: a sequence of <<key, value>> pairs
\* =================================================================
DictKeys(d) == {d[i][1] : i \in 1..Len(d)}
DictHas(d, k) == k \in DictKeys(d)
DictGet(d, k) == (CHOOSE i \in 1..Len(d) : d[i][1] = k)
DictVal(d, k) == d[DictGet(d, k)][2]
\* d[k] = v: an existing key keeps its place, a new key goes last
DictSet(d, k, v) ==
    IF DictHas(d, k)
    THEN [i \in 1..Len(d) |-> IF d[i][1] = k THEN <<k, v>> ELSE d[i]]
    ELSE Append(d, <<k, v>>)
\* d.update(m)
RECURSIVE DictUpdate(_, _)
DictUpdate(d, m) ==
    IF m = <<>> THEN d
    ELSE DictUpdate(DictSet(d, m[1][1], m[1][2]), Tail(m))
\* the dict without the keys in ks
DictDrop(d, ks) == SelectSeq(d, LAMBDA e : e[1] \notin ks)

\* A dict whose order is never read: a function on its keys
MapSet(m, k, v) == [x \in DOMAIN m \cup {k} |-> IF x = k THEN v ELSE m[x]]
MapDrop(m, ks) == [x \in DOMAIN m \ ks |-> m[x]]
EmptyMap == [x \in {} |-> 0]

\* =================================================================
\* OptimizedInMemoryNonceStore
\* =================================================================
\* __init__ at time t
\* (lock: the thread that holds self._lock, 0 when it is free)
NewStore(t, max_size) ==
    [store |-> EmptyMap, access_times |-> <<>>, lock |-> 0, last_cleanup |-> t,
     cleanup_interval |-> cleanup_interval, max_size |-> max_size]

\* _cleanup_expired that drops the expired nonces from _store alone
cleanup_expired_store_only(s, t) ==
    LET expired_nonces == {n \in DOMAIN s.store : t > s.store[n]}
    IN  [s EXCEPT !.store = MapDrop(s.store, expired_nonces)]

\* _cleanup_expired: drop every nonce whose expiry lies before t
cleanup_expired(s, t) ==
    LET expired_nonces == {n \in DOMAIN s.store : t > s.store[n]}
    IN  [s EXCEPT !.store = MapDrop(s.store, expired_nonces),
                  !.access_times = DictDrop(s.access_times, expired_nonces)]

\* _cleanup_if_needed that waits for more than the interval
cleanup_if_needed_later(s, t) ==
    IF t - s.last_cleanup <= s.cleanup_interval
    THEN s
    ELSE [cleanup_expired(s, t) EXCEPT !.last_cleanup = t]

\* _cleanup_if_needed
cleanup_if_needed(s, t) ==
    IF t - s.last_cleanup < s.cleanup_interval
    THEN s
    ELSE [cleanup_expired(s, t) EXCEPT !.last_cleanup = t]

\* the entries taken in insertion order, whatever their access times
Rank_by_insertion(d, i) == i

\* sorted(self._access_times.items(), key=lambda x: x[1]): a stable sort, so
\* entries with equal access time stay in insertion order.  Rank(d, i) is the
\* position of d[i] in the sorted list.
Rank(d, i) ==
    Cardinality({j \in 1..Len(d) : d[j][2] < d[i][2] \/ (d[j][2] = d[i][2] /\ j < i)}) + 1

\* _evict_old_entries
evict_old_entries(s) ==
    IF s.access_times = <<>>
    THEN s
    ELSE LET d == s.access_times
             evict_count == Max(1, Len(d) \div 4)
             victims == {d[i][1] : i \in {j \in 1..Len(d) : Rank(d, j) <= evict_count}}
         IN  [s EXCEPT !.store = MapDrop(s.store, victims),
                       !.access_times = DictDrop(d, victims)]

\* is_used that answers for every stored nonce, expired or not
is_used_ignores_expiry(s, nonce, t) ==
    LET s1 == cleanup_if_needed(s, t)
    IN  IF nonce \in DOMAIN s1.store
        THEN [store |-> [s1 EXCEPT !.access_times = DictSet(s1.access_times, nonce, t)],
              ret |-> TRUE]
        ELSE [store |-> s1, ret |-> FALSE]

\* is_used that leaves the access time as it is
is_used_no_refresh(s, nonce, t) ==
    LET s1 == cleanup_if_needed(s, t)
    IN  IF nonce \in DOMAIN s1.store
        THEN [store |-> s1, ret |-> (t <= s1.store[nonce])]
        ELSE [store |-> s1, ret |-> FALSE]

\* is_used(nonce) at time t: the store afterwards, and the value returned
is_used(s, nonce, t) ==
    LET s1 == cleanup_if_needed(s, t)
    IN  IF nonce \in DOMAIN s1.store
        THEN [store |-> [s1 EXCEPT !.access_times = DictSet(s1.access_times, nonce, t)],
              ret |-> (t <= s1.store[nonce])]
        ELSE [store |-> s1, ret |-> FALSE]

\* get_stats() at time t (without the memory estimate)
get_stats(s, t) ==
    LET active_count == Cardinality({n \in DOMAIN s.store : t <= s.store[n]})
    IN  [total_entries |-> Cardinality(DOMAIN s.store),
         active_entries |-> active_count,
         expired_entries |-> Cardinality(DOMAIN s.store) - active_count,
         max_size |-> s.max_size,
         last_cleanup |-> s.last_cleanup]

\* mark_used that evicts nothing
make_room_keep_all(s) == s

\* mark_used: the store when the new nonce is about to be inserted
make_room(s) ==
    IF Cardinality(DOMAIN s.store) >= s.max_size THEN evict_old_entries(s) ELSE s

\* mark_used(nonce, expiry_time) at time t
mark_used(s, nonce, expiry_time, t) ==
    LET s1 == make_room(s)
        s2 == [s1 EXCEPT !.store = MapSet(s1.store, nonce, expiry_time),
                         !.access_times = DictSet(s1.access_times, nonce, t)]
    IN  cleanup_if_needed(s2, t)

\* =================================================================
\* The Django cache as the nonce store: key -> time the TTL runs out.
\* A key set at time t with timeout d is there while the clock is below t + d.
\* =================================================================
\* cache.get(cache_key) is not None, at time t
cache_has(c, key, t) == key \in DOMAIN c /\ t < c[key]
\* cache.set(cache_key, timestamp, timeout=timeout), at time t
cache_set(c, key, timeout, t) == MapSet(c, key, t + timeout)
\* a cache key that leaves the nonce out
cache_key_prefix_only(nonce) == "sig_nonce"

\* cache_key = f"{self.nonce_cache_prefix}:{nonce}"
cache_key(nonce) == nonce

\* =================================================================
\* Requests
\* =================================================================
\* X-Timestamp as sent: absent/empty, a text int() refuses, or a decimal integer
NoTs == [kind |-> "missing", val |-> 0]
TextTs == [kind |-> "text", val |-> 0]
IntTs(v) == [kind |-> "int", val |-> v]

\* A path is the sequence of its characters, so that str.startswith is the
\* prefix test it is.  SIGNATURE_AUTH_PROTECTED_PATHS is ['/a/'] and
\* SIGNATURE_AUTH_EXCLUDED_PATHS is ['/s/', '/a/h'] here.
protected_paths == {<<"/", "a", "/">>}
excluded_paths == {<<"/", "s", "/">>, <<"/", "a", "/", "h">>}
\* path.startswith(prefix)
startswith(path, prefix) ==
    Len(prefix) <= Len(path) /\ SubSeq(path, 1, Len(prefix)) = prefix

\* A body is a text.  A text that is a JSON object is the sequence of its
\* <<key, value>> members in the order written, with or without white space
\* between its tokens; values are kept as the text of their literal.  Other
\* kinds: "empty", "array" (JSON that is not an object), "text" (not JSON),
\* "hex" (the output of bytes.hex()).
EmptyBody == [kind |-> "empty", text |-> "", pairs |-> <<>>, spaced |-> FALSE]
JsonText(pairs, spaced) == [kind |-> "json", text |-> "", pairs |-> pairs, spaced |-> spaced]
ArrayText(text, spaced) == [kind |-> "array", text |-> text, pairs |-> <<>>, spaced |-> spaced]
PlainText(text) == [kind |-> "text", text |-> text, pairs |-> <<>>, spaced |-> FALSE]

\* The keys that occur in bodies, in the order of sorted()
KeyOrder == <<"a", "authenticated", "b", "cache_backend", "code", "data", "debug",
              "error", "message", "name", "request_id", "timestamp", "user">>
KeyRank(k) == CHOOSE i \in 1..Len(KeyOrder) : KeyOrder[i] = k

\* The endpoint the clients call when nothing else is said
Method == "POST"
Path == <<"/", "a", "/", "p">>
Body == JsonText(<<<<"name", "x">>>>, FALSE)
ContentType == "application/json"

\* 'application/json' in content_type.lower(), on the content types that occur
is_json_type(content_type) ==
    content_type \in {"application/json", "Application/JSON; charset=utf-8"}

\* str.upper() on the methods that occur
upper(method) == IF method \in {"post", "POSt"} THEN "POST" ELSE method

\* json.loads of a JSON object: a dict in the order of first occurrence of each
\* key, a repeated key keeping its last value
RECURSIVE json_loads(_)
json_loads(pairs) ==
    IF pairs = <<>> THEN <<>>
    ELSE LET n == Len(pairs)
         IN  DictSet(json_loads(SubSeq(pairs, 1, n - 1)), pairs[n][1], pairs[n][2])

\* the items of a dict left in the order they have
sort_keys_unsorted(d) == d

\* the items of a dict sorted by key
sort_keys(d) ==
    [i \in 1..Len(d) |->
        d[CHOOSE j \in 1..Len(d) :
            Cardinality({k \in 1..Len(d) : KeyRank(d[k][1]) < KeyRank(d[j][1])}) = i - 1]]

\* json.dumps(data, separators=(',', ':'), sort_keys=sorted): no white space
json_dumps(d, sorted) == JsonText(IF sorted THEN sort_keys(d) ELSE d, FALSE)

\* f"{method}|{path}|{body}|{timestamp}|{nonce}": the five fields, in order.
\* Kept apart here, which is the string itself as long as no field holds a
\* "|", as is so wherever Message is used; format_message is the string.
Message(method, path, body, timestamp, nonce) == <<method, path, body, timestamp, nonce>>

\* f"{method}|{path}|{body}|{timestamp}|{nonce}" as the string it is
format_message(method, path, body, timestamp, nonce) ==
    method \o "|" \o path \o "|" \o body \o "|" \o timestamp \o "|" \o nonce

\* hmac.new(key, message, sha256).hexdigest()
hmac_new(key, message) == [kind |-> "hmac", key |-> key, message |-> message]
\* X-Signature absent or empty
NoSig == [kind |-> "missing", key |-> "", message |-> Message("", <<>>, EmptyBody, NoTs, "")]
\* X-Signature holding a character outside ASCII: hmac.compare_digest raises TypeError
NonAsciiSig ==
    [kind |-> "nonascii", key |-> "", message |-> Message("", <<>>, EmptyBody, NoTs, "")]

\* hmac.compare_digest(a, b) for ASCII strings
compare_digest(a, b) == a = b

\* The error message of a rejection: its text and the values formatted into it
Msg(text) == [text |-> text, missing |-> <<>>, age |-> 0]
NoMsg == Msg("")
\* The three signature headers of a response; none before _sign_response
NoHeaders ==
    [signature |-> [kind |-> "missing", key |-> "", message |-> <<0, EmptyBody, 0, "">>],
     timestamp |-> 0, nonce |-> ""]
\* A response: status, Content-Type, content, the signature headers; code and
\* message are the 'code' and 'message' members of a 401's content
NewResponse(status, content_type, content) ==
    [status |-> status, content_type |-> content_type, content |-> content,
     code |-> "", message |-> NoMsg, headers |-> NoHeaders]
NoResponse == NewResponse(0, "", EmptyBody)
\* The _sig_auth_* attributes of a request; none is set before authentication
NoContext == [authenticated |-> FALSE, request_id |-> "", timestamp |-> 0,
              client_ip |-> "", cache_backend |-> ""]
\* cache_info['backend_name'] of the configured cache
backend_name == "Local Memory"

IdleRequest ==
    [pc |-> "idle", method |-> "", path |-> <<>>, body |-> EmptyBody, content_type |-> "",
     sig |-> NoSig, ts |-> NoTs, nonce |-> "",
     current_time |-> 0, is_valid |-> FALSE, message |-> NoMsg,
     context |-> NoContext, handled |-> FALSE, response |-> NoResponse,
     \* history of this request, kept for the properties
     returned |-> NoResponse, tamper |-> "",
     novel |-> FALSE, replay |-> FALSE, during |-> {},
     nonce_checked |-> "", sig_checked |-> FALSE,
     get_failed |-> FALSE, set_failed |-> FALSE, raised |-> FALSE, marked |-> FALSE]

\* What a client may send at time t
TsOffsets == (0 - (signature_window + 1)) .. (signature_window + 1)
TsHeaders(t) == {NoTs, TextTs} \cup {IntTs(t + d) : d \in TsOffsets}
NonceHeaders == {""} \cup Nonces
\* a signature by some key over the request as sent, or over it with another nonce
SigHeaders(ts, nonce) ==
    {NoSig, NonAsciiSig}
    \cup {hmac_new(k, Message(Method, Path, Body, ts, nonce)) : k \in Keys}
    \cup {hmac_new(secret_key, Message(Method, Path, Body, ts, n)) : n \in Nonces}

\* =================================================================
\* SignatureAuthenticationMiddleware
\* =================================================================
\* the headers that are missing, with the timestamp named before the signature
missing_headers_timestamp_first(rq) ==
    (IF rq.ts.kind = "missing" THEN <<"timestamp">> ELSE <<>>)
    \o (IF rq.sig.kind = "missing" THEN <<"signature">> ELSE <<>>)
    \o (IF rq.nonce = "" THEN <<"nonce">> ELSE <<>>)

\* _validate_signature, up to the freshness check: the headers that are missing
missing_headers(rq) ==
    (IF rq.sig.kind = "missing" THEN <<"signature">> ELSE <<>>)
    \o (IF rq.ts.kind = "missing" THEN <<"timestamp">> ELSE <<>>)
    \o (IF rq.nonce = "" THEN <<"nonce">> ELSE <<>>)

\* abs(current_time - timestamp)
time_diff(rq, t) == Abs(t - rq.ts.val)

\* the freshness check with >= in place of >
expired_inclusive(rq, t) == time_diff(rq, t) >= signature_window

\* time_diff > self.signature_window
expired(rq, t) == time_diff(rq, t) > signature_window

\* SignatureHelper.is_signature_expired(timestamp, max_age) at time t
is_signature_expired(timestamp, max_age, t) ==
    IF timestamp.kind # "int" THEN TRUE
    ELSE (t - timestamp.val) > max_age

\* the freshness check made before the timestamp format check
validate_headers_expiry_first(rq, t) ==
    IF missing_headers(rq) # <<>>
    THEN [ok |-> FALSE, message |-> [Msg("Missing headers") EXCEPT !.missing = missing_headers(rq)]]
    ELSE IF expired(rq, t)
    THEN [ok |-> FALSE, message |-> [Msg("Request expired") EXCEPT !.age = time_diff(rq, t)]]
    ELSE IF rq.ts.kind # "int"
    THEN [ok |-> FALSE, message |-> Msg("Invalid timestamp format")]
    ELSE [ok |-> TRUE, message |-> NoMsg]

\* _validate_signature before the nonce store is asked, at time t:
\* ok (go on to the nonce check), or the error message returned
validate_headers(rq, t) ==
    IF missing_headers(rq) # <<>>
    THEN [ok |-> FALSE, message |-> [Msg("Missing headers") EXCEPT !.missing = missing_headers(rq)]]
    ELSE IF rq.ts.kind # "int"
    THEN [ok |-> FALSE, message |-> Msg("Invalid timestamp format")]
    ELSE IF expired(rq, t)
    THEN [ok |-> FALSE, message |-> [Msg("Request expired") EXCEPT !.age = time_diff(rq, t)]]
    ELSE [ok |-> TRUE, message |-> NoMsg]

\* the expected signature computed over the message the client signed, not over
\* the request that arrived
calculate_request_signature_of_claimed(rq) == hmac_new(secret_key, rq.sig.message)

\* _normalize_request_body
normalize_request_body(rq) ==
    IF rq.body.kind = "empty" THEN EmptyBody
    ELSE IF is_json_type(rq.content_type)
    THEN IF rq.body.kind = "json" THEN json_dumps(json_loads(rq.body.pairs), TRUE)
         ELSE IF rq.body.kind = "array" THEN [rq.body EXCEPT !.spaced = FALSE]
         ELSE [rq.body EXCEPT !.kind = "hex"]
    ELSE rq.body

\* _calculate_request_signature(request, timestamp_str, nonce)
calculate_request_signature(rq) ==
    hmac_new(secret_key,
             Message(upper(rq.method), rq.path, normalize_request_body(rq), rq.ts, rq.nonce))

\* _is_protected_path with the protected prefixes looked at first
is_protected_path_protected_first(path) ==
    IF \E p \in protected_paths : startswith(path, p) THEN TRUE
    ELSE FALSE

\* _is_protected_path
is_protected_path(path) ==
    IF \E e \in excluded_paths : startswith(path, e) THEN FALSE
    ELSE IF \E p \in protected_paths : startswith(path, p) THEN TRUE
    ELSE FALSE

\* expiry_time = timestamp + self.signature_window + 60
expiry_of(timestamp) == timestamp + signature_window + grace_period
\* timeout = self.signature_window + 60
cache_timeout == signature_window + grace_period

\* f"{status}|{content}|{timestamp}|{nonce}"
ResponseMessage(status, content, timestamp, nonce) == <<status, content, timestamp, nonce>>

\* _sign_response at time t; str(uuid.uuid4()) is "uuid4"
sign_response(response, t) ==
    [response EXCEPT !.headers =
        [signature |-> hmac_new(secret_key,
                                ResponseMessage(response.status, response.content, t, "uuid4")),
         timestamp |-> t, nonce |-> "uuid4"]]

\* utils.verify_response_signature
verify_response_signature(response_content, status_code, signature, timestamp, nonce, key) ==
    compare_digest(signature,
                   hmac_new(key, ResponseMessage(status_code, response_content, timestamp, nonce)))

\* _create_error_response at time t.  JsonResponse writes the content with the
\* default separators of json.dumps, which put a space after ',' and ':'.
create_error_response(error_message, t) ==
    LET response_data ==
            << <<"error", "Authentication Failed">>, <<"message", error_message.text>>,
               <<"code", "SIGNATURE_INVALID">>, <<"timestamp", "isoformat">>,
               <<"request_id", "uuid4">>, <<"user", "Anonymous">> >>
            \o (IF settings.debug_mode
                THEN << <<"debug", "details">>, <<"cache_backend", backend_name>>,
                        <<"authenticated", "false">> >>
                ELSE <<>>)
        response == [NewResponse(401, "application/json", JsonText(response_data, TRUE))
                       EXCEPT !.code = "SIGNATURE_INVALID", !.message = error_message]
    IN  sign_response(response, t)

\* metadata written whether or not the body holds the key
metadata_for_any(rq, keys) ==
    << <<"timestamp", "isoformat">>, <<"request_id", "uuid4">>,
       <<"authenticated", "true">>, <<"user", "username">> >>

\* the metadata _enhance_response_content has for a body holding the given keys
metadata_for(rq, keys) ==
    (IF "timestamp" \notin keys THEN << <<"timestamp", "isoformat">> >> ELSE <<>>)
    \o (IF "request_id" \notin keys
        THEN << <<"request_id",
                  IF rq.context.request_id # "" THEN rq.context.request_id ELSE "uuid4">> >>
        ELSE <<>>)
    \o (IF "authenticated" \notin keys THEN << <<"authenticated", "true">> >> ELSE <<>>)
    \o (IF "user" \notin keys THEN << <<"user", "username">> >> ELSE <<>>)
    \o (IF "cache_backend" \notin keys /\ settings.debug_mode
        THEN << <<"cache_backend",
                  IF rq.context.cache_backend # "" THEN rq.context.cache_backend
                  ELSE "unknown">> >>
        ELSE <<>>)

\* _enhance_response_content
enhance_response_content(rq, response) ==
    IF ~settings.add_processing_metadata THEN response
    ELSE IF response.content.kind \in {"text", "hex"} THEN response
    ELSE LET data == IF response.content.kind = "json"
                     THEN json_loads(response.content.pairs) ELSE <<>>
             metadata == metadata_for(rq, DictKeys(data))
         IN  IF metadata = <<>> THEN response
             ELSE IF response.content.kind = "array"
             THEN [response EXCEPT !.content =
                      json_dumps(<< <<"data", response.content.text>> >> \o metadata, FALSE)]
             ELSE [response EXCEPT !.content = json_dumps(DictUpdate(data, metadata), FALSE)]

\* process_response that signs the response before it enhances it
process_response_sign_first(rq, response, t) ==
    IF ~is_protected_path(rq.path) THEN response
    ELSE IF ~is_json_type(response.content_type) THEN response
    ELSE LET signed == sign_response(response, t)
         IN  IF settings.auto_enhance_responses
             THEN [signed EXCEPT !.content = enhance_response_content(rq, response).content]
             ELSE signed

\* process_response that signs whatever the content type
process_response_any_content_type(rq, response, t) ==
    IF ~is_protected_path(rq.path) THEN response
    ELSE sign_response(IF settings.auto_enhance_responses
                       THEN enhance_response_content(rq, response)
                       ELSE response, t)

\* process_response that signs under the nonce of the request
process_response_request_nonce(rq, response, t) ==
    IF ~is_protected_path(rq.path) THEN response
    ELSE IF ~is_json_type(response.content_type) THEN response
    ELSE LET signed == sign_response(IF settings.auto_enhance_responses
                                     THEN enhance_response_content(rq, response)
                                     ELSE response, t)
         IN  [signed EXCEPT
                !.headers.nonce = rq.nonce,
                !.headers.signature =
                    hmac_new(secret_key,
                             ResponseMessage(signed.status, signed.content, t, rq.nonce))]

\* process_response at time t
process_response(rq, response, t) ==
    IF ~is_protected_path(rq.path) THEN response
    ELSE IF ~is_json_type(response.content_type) THEN response
    ELSE sign_response(IF settings.auto_enhance_responses
                       THEN enhance_response_content(rq, response)
                       ELSE response, t)

\* _mark_request_authenticated, at time t
mark_request_authenticated(t) ==
    [authenticated |-> TRUE, request_id |-> "uuid4", timestamp |-> t,
     client_ip |-> "REMOTE_ADDR", cache_backend |-> backend_name]

\* process_request that goes on to the handler whatever the validation returned
process_request_always_proceeds(rq, is_valid, error_message, t) ==
    [rq EXCEPT !.pc = "handler", !.is_valid = is_valid, !.message = error_message,
               !.context = IF is_valid THEN mark_request_authenticated(t) ELSE @]

\* process_request once _validate_signature has returned (is_valid, error_message),
\* at time t: the 401 is returned and the handler skipped, or the context is attached
\* and None returned, which sends the request on to the handler
process_request(rq, is_valid, error_message, t) ==
    IF ~is_valid
    THEN [rq EXCEPT !.pc = "done", !.is_valid = FALSE, !.message = error_message,
                    !.returned = create_error_response(error_message, t),
                    !.response = process_response(rq, create_error_response(error_message, t), t)]
    ELSE [rq EXCEPT !.pc = "handler", !.is_valid = TRUE, !.message = error_message,
                    !.context = mark_request_authenticated(t)]

\* _is_nonce_used that answers "unused" when the cache call raises
is_nonce_used_fail_open(avail, c, s, nonce, t, fail) ==
    IF avail
    THEN [used |-> IF fail THEN FALSE ELSE cache_has(c, cache_key(nonce), t), store |-> s]
    ELSE LET r == is_used(s, nonce, t) IN [used |-> r.ret, store |-> r.store]

\* _is_nonce_used that turns to the in-process store when the cache call raises
is_nonce_used_switches_store(avail, c, s, nonce, t, fail) ==
    IF avail /\ ~fail
    THEN [used |-> cache_has(c, cache_key(nonce), t), store |-> s]
    ELSE LET r == is_used(s, nonce, t) IN [used |-> r.ret, store |-> r.store]

\* _is_nonce_used(nonce) at time t; fail: the cache call raises.
\* The value returned and the in-process store afterwards.
is_nonce_used(avail, c, s, nonce, t, fail) ==
    IF avail
    THEN [used |-> IF fail THEN TRUE ELSE cache_has(c, cache_key(nonce), t), store |-> s]
    ELSE LET r == is_used(s, nonce, t) IN [used |-> r.ret, store |-> r.store]

\* _mark_nonce_used(nonce, timestamp) at time t; fail: the cache call raises (and
\* the exception is logged and dropped).  The cache and the in-process store afterwards.
mark_nonce_used(avail, c, s, nonce, timestamp, t, fail) ==
    IF avail
    THEN [cache |-> IF fail THEN c ELSE cache_set(c, cache_key(nonce), cache_timeout, t),
          store |-> s]
    ELSE [cache |-> c, store |-> mark_used(s, nonce, expiry_of(timestamp), t)]

\* The state of the validator's state machine a request has ended in;
\* "UNPROTECTED" for a request that never entered it
State(rq) ==
    IF rq.pc \in {"handler", "done"}
    THEN (IF ~is_protected_path(rq.path) THEN "UNPROTECTED"
          ELSE IF rq.is_valid THEN "AUTHENTICATED" ELSE "REJECTED")
    ELSE "VALIDATING"

InValidation(rq) == rq.pc \in {"nonce_check", "verify"}

\* The settings as _load_config defaults them, the secret key set, after a
\* startup that went through; fallback_store_set: self.fallback_store is not None.
\* ready and init are "" before the call, "ok" after it returned, and the name
\* of the exception after it raised; probe is the outcome of the probe made by
\* the constructor; ready_warned: ready() warned of a weak key, as it does for
\* the key set here
RunningSettings(fallback_store_set) ==
    [ready |-> "ok", ready_warned |-> TRUE, init |-> "ok",
     probe |-> IF fallback_store_set THEN "failed" ELSE "ok",
     SECRET_KEY |-> secret_key,
     use_cache_fallback |-> TRUE, fallback_store_set |-> fallback_store_set,
     debug_mode |-> FALSE, auto_enhance_responses |-> TRUE,
     add_processing_metadata |-> TRUE]

NoEviction == [before |-> <<>>, after |-> <<>>]

\* No call yet.  op: the method called; nonce, expiry: its arguments; t: the
\* time of the call; before: the store when it was called; ret: what it
\* returned; touched: for each nonce stored when it was called, the time and
\* the method of the last earlier call that named it
NoCall ==
    [op |-> "", nonce |-> "", expiry |-> 0, t |-> 0,
     before |-> NewStore(0, fallback_max_size), ret |-> FALSE, touched |-> EmptyMap]

\* For each nonce stored now, the time and the method of the last call that
\* named it
Touched ==
    LET named == IF last_call.op # "" /\ last_call.nonce \in DOMAIN fallback_store.store
                 THEN MapSet(last_call.touched, last_call.nonce,
                             [t |-> last_call.t, op |-> last_call.op])
                 ELSE last_call.touched
    IN  [n \in DOMAIN fallback_store.store |-> named[n]]

\* The middleware as constructed, over either nonce store
Init ==
    /\ now = 0
    /\ cache_available \in BOOLEAN
    /\ cache = EmptyMap
    /\ fallback_store = NewStore(0, fallback_max_size)
    /\ req = [w \in Workers |-> IdleRequest]
    /\ accepted = EmptyMap
    /\ settings = RunningSettings(~cache_available)
    /\ last_eviction = NoEviction
    /\ last_call = NoCall

Quiescent == \A v \in Workers : req[v].pc = "idle"

\* Time passes.  One unit is 60 seconds, far longer than a validation takes:
\* the clock does not reach the next unit while a request is being validated
\* (it may while a handler runs).
Tick ==
    /\ now < MaxTime
    /\ \A w \in Workers : ~InValidation(req[w])
    /\ now' = now + 1
    /\ UNCHANGED <<cache_available, cache, fallback_store, req, accepted, settings, last_eviction, last_call>>

\* Time passes between two bursts of requests
QuietTick == Quiescent /\ Tick

\* A request with the given headers reaches worker w at the present time:
\* process_request, _validate_signature down to the freshness check
\* (sent.tamper is history: what the client did to the request after signing)
Arrive(w, sent) ==
    LET r0 == [IdleRequest EXCEPT
                 !.method = sent.method, !.path = sent.path, !.body = sent.body,
                 !.content_type = sent.content_type,
                 !.sig = sent.sig, !.ts = sent.ts, !.nonce = sent.nonce,
                 !.current_time = now, !.tamper = sent.tamper]
        rq == [r0 EXCEPT
                 !.novel = r0.nonce \notin DOMAIN accepted,
                 !.replay = /\ r0.ts.kind = "int"
                            /\ r0.nonce \in DOMAIN accepted
                            /\ accepted[r0.nonce].ts = r0.ts.val
                            /\ accepted[r0.nonce].recorded
                            /\ r0.sig = calculate_request_signature(r0),
                 !.during = {v \in Workers : InValidation(req[v])}]
        v == validate_headers(rq, now)
    IN  /\ req' = [req EXCEPT ![w] =
                     IF ~is_protected_path(rq.path) THEN [r0 EXCEPT !.pc = "handler"]
                     ELSE IF v.ok THEN [rq EXCEPT !.pc = "nonce_check"]
                     ELSE process_request(rq, FALSE, v.message, now)]
        /\ UNCHANGED <<now, cache_available, cache, fallback_store, accepted, settings, last_eviction, last_call>>

\* the pool hands a request to its first free worker
FirstFree(w) == req[w].pc = "idle" /\ \A v \in Workers : v < w => req[v].pc # "idle"

\* A request to the endpoint with the given three headers
Sent(ts, nonce, sig) ==
    [method |-> Method, path |-> Path, body |-> Body, content_type |-> ContentType,
     ts |-> ts, nonce |-> nonce, sig |-> sig, tamper |-> ""]

\* A client sends a request with all three headers, stamped with the present
\* time and signed with some key, whatever else is in flight
Receive(w) ==
    /\ FirstFree(w)
    /\ \E ts \in {IntTs(now)}, nonce \in Nonces, k \in Keys :
         Arrive(w, Sent(ts, nonce, hmac_new(k, Message(Method, Path, Body, ts, nonce))))

\* A client sends any request at all, while no other request is in flight
ReceiveAny(w) ==
    /\ FirstFree(w)
    /\ Quiescent
    /\ \E ts \in TsHeaders(now), nonce \in NonceHeaders :
         \E sig \in SigHeaders(ts, nonce) : Arrive(w, Sent(ts, nonce, sig))

\* A cache call may raise; the in-process store does not
Failures == IF cache_available THEN BOOLEAN ELSE {FALSE}

\* _is_nonce_used; a used nonce ends _validate_signature with "Replay attack detected"
NonceCheck(w) ==
    /\ req[w].pc = "nonce_check"
    /\ \E fail \in Failures :
         LET rq == req[w]
             r == is_nonce_used(cache_available, cache, fallback_store, rq.nonce, now, fail)
             rq1 == [rq EXCEPT !.get_failed = fail,
                               !.nonce_checked = IF r.used THEN "used" ELSE "unused"]
         IN  /\ fallback_store' = r.store
             /\ req' = [req EXCEPT ![w] =
                          IF r.used
                          THEN process_request(rq1, FALSE, Msg("Replay attack detected"), now)
                          ELSE [rq1 EXCEPT !.pc = "verify"]]
    /\ UNCHANGED <<now, cache_available, cache, accepted, settings, last_eviction, last_call>>

\* _validate_signature that records the nonce before it compares the signatures
VerifyAndMark_mark_first(w) ==
    /\ req[w].pc = "verify"
    /\ LET rq == [req[w] EXCEPT !.sig_checked = TRUE]
           m == mark_nonce_used(cache_available, cache, fallback_store,
                                rq.nonce, rq.ts.val, now, FALSE)
           ok == rq.sig.kind # "nonascii"
                 /\ compare_digest(rq.sig, calculate_request_signature(rq))
       IN  /\ cache' = m.cache
           /\ fallback_store' = m.store
           /\ req' = [req EXCEPT ![w] =
                        IF ok
                        THEN process_request([rq EXCEPT !.marked = TRUE], TRUE,
                                             Msg("Valid signature"), now)
                        ELSE process_request(rq, FALSE, Msg("Invalid signature"), now)]
           /\ accepted' = IF ok
                          THEN MapSet(accepted, rq.nonce, [ts |-> rq.ts.val, recorded |-> TRUE])
                          ELSE accepted
    /\ UNCHANGED <<now, cache_available, settings, last_eviction, last_call>>

\* the signature check, _mark_nonce_used and the rest of process_request
VerifyAndMark(w) ==
    /\ req[w].pc = "verify"
    /\ LET rq == [req[w] EXCEPT !.sig_checked = TRUE] IN
       IF rq.sig.kind = "nonascii"
       THEN \* compare_digest raises; except Exception returns "Validation error"
            /\ req' = [req EXCEPT ![w] =
                         process_request([rq EXCEPT !.raised = TRUE], FALSE,
                                         Msg("Validation error"), now)]
            /\ UNCHANGED <<cache, fallback_store, accepted>>
       ELSE IF ~compare_digest(rq.sig, calculate_request_signature(rq))
       THEN /\ req' = [req EXCEPT ![w] =
                         process_request(rq, FALSE, Msg("Invalid signature"), now)]
            /\ UNCHANGED <<cache, fallback_store, accepted>>
       ELSE \E fail \in Failures :
            LET m == mark_nonce_used(cache_available, cache, fallback_store,
                                     rq.nonce, rq.ts.val, now, fail)
            IN  /\ cache' = m.cache
                /\ fallback_store' = m.store
                /\ req' = [req EXCEPT ![w] =
                             process_request([rq EXCEPT !.set_failed = fail, !.marked = ~fail],
                                             TRUE, Msg("Valid signature"), now)]
                /\ accepted' = MapSet(accepted, rq.nonce,
                                      [ts |-> rq.ts.val, recorded |-> ~fail])
    /\ UNCHANGED <<now, cache_available, settings, last_eviction, last_call>>

\* the collaborator handler runs and returns the given response, which goes
\* through process_response on the way out
Respond(w, response) ==
    /\ req[w].pc = "handler"
    /\ req[w].response = NoResponse
    /\ req' = [req EXCEPT ![w] =
                 [@ EXCEPT !.pc = "done", !.handled = TRUE, !.returned = response,
                           !.response = process_response(req[w], response, now)]]
    /\ UNCHANGED <<now, cache_available, cache, fallback_store, accepted, settings, last_eviction, last_call>>

\* what the endpoint answers
HandlerResponse == NewResponse(200, "application/json", JsonText(<<<<"data", "x">>>>, TRUE))

Handle(w) == Respond(w, HandlerResponse)

\* the response has left; the worker is free for the next request
Finish(w) ==
    /\ req[w].pc = "done"
    /\ req' = [v \in Workers |->
                 IF v = w THEN IdleRequest
                 ELSE [req[v] EXCEPT !.during = @ \ {w}]]
    /\ UNCHANGED <<now, cache_available, cache, fallback_store, accepted, settings, last_eviction, last_call>>

\* Clients that send one request at a time, of any shape
Next ==
    \/ Tick
    \/ \E w \in Workers : ReceiveAny(w)
    \/ \E w \in Workers : NonceCheck(w)
    \/ \E w \in Workers : VerifyAndMark(w)
    \/ \E w \in Workers : Handle(w)
    \/ \E w \in Workers : Finish(w)

Spec == Init /\ [][Next]_vars

\* Clients that send well-formed requests in parallel
ConcNext ==
    \/ QuietTick
    \/ \E w \in Workers : Receive(w)
    \/ \E w \in Workers : NonceCheck(w)
    \/ \E w \in Workers : VerifyAndMark(w)
    \/ \E w \in Workers : Handle(w)
    \/ \E w \in Workers : Finish(w)

ConcSpec == Init /\ [][ConcNext]_vars

\* -----------------------------------------------------------------
\* Requests to any path
\* -----------------------------------------------------------------
\* The paths the clients ask for: under the protected prefix, under a protected
\* and an excluded prefix, under an excluded prefix, under neither, and the
\* protected prefix short of its last character
ClientPaths ==
    {Path, <<"/", "a", "/", "h">>, <<"/", "s", "/", "x">>, <<"/", "b">>, <<"/", "a">>}

\* A client sends a request to some path, with no signature headers or with
\* all three, stamped with the present time and signed with some key
ReceiveAt(w) ==
    /\ FirstFree(w)
    /\ Quiescent
    /\ \E path \in ClientPaths, nonce \in Nonces :
         \E sig \in {NoSig} \cup {hmac_new(k, Message(Method, path, Body, IntTs(now), nonce)) :
                                    k \in Keys} :
            Arrive(w, [Sent(IF sig = NoSig THEN NoTs ELSE IntTs(now),
                            IF sig = NoSig THEN "" ELSE nonce, sig) EXCEPT !.path = path])

PathNext ==
    \/ QuietTick
    \/ \E w \in Workers : ReceiveAt(w)
    \/ \E w \in Workers : NonceCheck(w)
    \/ \E w \in Workers : VerifyAndMark(w)
    \/ \E w \in Workers : Handle(w)
    \/ \E w \in Workers : Finish(w)

PathSpec == Init /\ [][PathNext]_vars

\* -----------------------------------------------------------------
\* Handlers that answer anything, under any response settings
\* -----------------------------------------------------------------
RespInit ==
    /\ now = 0
    /\ cache_available \in BOOLEAN
    /\ cache = EmptyMap
    /\ fallback_store = NewStore(0, fallback_max_size)
    /\ req = [w \in Workers |-> IdleRequest]
    /\ accepted = EmptyMap
    /\ \E debug_mode \in BOOLEAN, auto_enhance_responses \in BOOLEAN,
          add_processing_metadata \in BOOLEAN :
          settings = [RunningSettings(~cache_available) EXCEPT
                        !.debug_mode = debug_mode,
                        !.auto_enhance_responses = auto_enhance_responses,
                        !.add_processing_metadata = add_processing_metadata]
    /\ last_eviction = NoEviction
    /\ last_call = NoCall

\* what the handlers put in a response: nothing, text that is not JSON, a JSON
\* array, and JSON objects that hold none, some or all of the metadata keys
HandlerBodies ==
    {EmptyBody, PlainText("oops"), ArrayText("[1]", FALSE),
     JsonText(<<>>, FALSE),
     JsonText(<< <<"data", "x">> >>, TRUE),
     JsonText(<< <<"b", "1">>, <<"authenticated", "false">>, <<"a", "2">> >>, TRUE),
     JsonText(<< <<"authenticated", "false">>, <<"timestamp", "t0">>, <<"user", "u">>,
                 <<"request_id", "r">>, <<"cache_backend", "c">> >>, FALSE)}
HandlerResponses ==
    {NewResponse(200, content_type, content) :
        content_type \in {"application/json", "Application/JSON; charset=utf-8", "text/html"},
        content \in HandlerBodies}

HandleAny(w) == \E response \in HandlerResponses : Respond(w, response)

\* A client sends a request to the endpoint or to a path that is not protected,
\* stamped with the present time and signed with some key
ReceiveOne(w) ==
    /\ FirstFree(w)
    /\ Quiescent
    /\ \E path \in {Path, <<"/", "b">>}, nonce \in Nonces, k \in Keys :
         Arrive(w, [Sent(IntTs(now), nonce,
                         hmac_new(k, Message(Method, path, Body, IntTs(now), nonce)))
                      EXCEPT !.path = path])

RespNext ==
    \/ QuietTick
    \/ \E w \in Workers : ReceiveOne(w)
    \/ \E w \in Workers : NonceCheck(w)
    \/ \E w \in Workers : VerifyAndMark(w)
    \/ \E w \in Workers : HandleAny(w)
    \/ \E w \in Workers : Finish(w)

RespSpec == RespInit /\ [][RespNext]_vars

\* -----------------------------------------------------------------
\* Clients that sign with utils.create_manual_signature
\* -----------------------------------------------------------------
\* The body argument of create_manual_signature: None, a dict (its items in the
\* order of the dict), a str (the text) or a list (its JSON text)
NoneBody == [type |-> "none", text |-> EmptyBody]
DictBody(pairs) == [type |-> "dict", text |-> JsonText(pairs, FALSE)]
StrBody(text) == [type |-> "str", text |-> text]
ListBody(text) == [type |-> "list", text |-> ArrayText(text, FALSE)]

\* create_manual_signature: body_str
body_str(body) ==
    IF body.type = "none" THEN EmptyBody
    ELSE IF body.type = "dict" THEN json_dumps(body.text.pairs, TRUE)
    ELSE IF body.type = "str" THEN body.text
    ELSE \* str(body): the repr of a list puts a space after each comma
         [body.text EXCEPT !.spaced = TRUE]

\* create_manual_signature(...)['X-Signature']; str(timestamp) is the header
create_manual_signature(method, path, body, key, timestamp, nonce) ==
    hmac_new(key, Message(upper(method), path, body_str(body), IntTs(timestamp), nonce))

ClientBodies ==
    {NoneBody,
     DictBody(<< <<"a", "1">>, <<"b", "2">> >>), DictBody(<< <<"b", "2">>, <<"a", "1">> >>),
     StrBody(PlainText("abc")),
     StrBody(JsonText(<< <<"a", "1">>, <<"b", "2">> >>, FALSE)),
     StrBody(JsonText(<< <<"b", "2">>, <<"a", "1">> >>, TRUE)),
     ListBody("[1,2]")}

\* The body and Content-Type that go on the wire for a body argument: nothing,
\* the dict or the list serialized with or without white space, the str as it is
Wire(body) ==
    IF body.type = "none" THEN {[body |-> EmptyBody, content_type |-> "application/json"]}
    ELSE IF body.type \in {"dict", "list"}
    THEN {[body |-> [body.text EXCEPT !.spaced = spaced], content_type |-> "application/json"] :
             spaced \in BOOLEAN}
    ELSE {[body |-> body.text, content_type |-> content_type] :
             content_type \in {"application/json", "text/plain"}}

\* The request with one character of one field changed after it was signed
Tampered(sent, field) ==
    IF field = "method" THEN {[sent EXCEPT !.method = m] : m \in {"POSt", "PAST"}}
    ELSE IF field = "path" THEN {[sent EXCEPT !.path = <<"/", "a", "/", "q">>]}
    ELSE IF field = "body"
    THEN IF sent.body.kind = "json"
         THEN {[sent EXCEPT !.body.spaced = ~@],
               [sent EXCEPT !.body.pairs = [@ EXCEPT ![1] = <<@[1], "7">>]]}
         ELSE {[sent EXCEPT !.body = PlainText("abd")]}
    ELSE IF field = "timestamp" THEN {[sent EXCEPT !.ts = IntTs(@.val + 1)]}
    ELSE IF field = "nonce" THEN {[sent EXCEPT !.nonce = IF @ = "n1" THEN "n2" ELSE "n1"]}
    ELSE {sent}

\* A client signs a request with create_manual_signature under the secret key
\* and sends it, as it is or with one character of one field changed
ReceiveSigned(w) ==
    /\ FirstFree(w)
    /\ Quiescent
    /\ \E body \in ClientBodies, nonce \in Nonces,
          field \in {"none", "method", "path", "body", "timestamp", "nonce"} :
         \E wire \in Wire(body) :
           \E sent \in Tampered([method |-> Method, path |-> Path, body |-> wire.body,
                                  content_type |-> wire.content_type,
                                  ts |-> IntTs(now), nonce |-> nonce,
                                  sig |-> create_manual_signature(Method, Path, body,
                                                                  secret_key, now, nonce),
                                  tamper |-> field],
                                 field) :
              Arrive(w, sent)

SignNext ==
    \/ QuietTick
    \/ \E w \in Workers : ReceiveSigned(w)
    \/ \E w \in Workers : NonceCheck(w)
    \/ \E w \in Workers : VerifyAndMark(w)
    \/ \E w \in Workers : Handle(w)
    \/ \E w \in Workers : Finish(w)

SignSpec == Init /\ [][SignNext]_vars

\* -----------------------------------------------------------------
\* Startup: SignatureAuthConfig.ready and the middleware constructor
\* -----------------------------------------------------------------
\* str.lower() of one character
lower_char(c) ==
    LET Upper == "ABCDEFGHIJKLMNOPQRSTUVWXYZ"
        Lower == "abcdefghijklmnopqrstuvwxyz"
    IN  IF \E i \in 1..Len(Upper) : SubSeq(Upper, i, i) = c
        THEN LET i == CHOOSE i \in 1..Len(Upper) : SubSeq(Upper, i, i) = c
             IN  SubSeq(Lower, i, i)
        ELSE c

\* str.lower()
RECURSIVE lower(_)
lower(text) ==
    IF text = "" THEN ""
    ELSE lower(SubSeq(text, 1, Len(text) - 1)) \o lower_char(SubSeq(text, Len(text), Len(text)))

\* pattern in text
contains(text, pattern) ==
    \E i \in 1..(Len(text) - Len(pattern) + 1) : SubSeq(text, i, i + Len(pattern) - 1) = pattern

\* validate_secret_key: weak_patterns, in the order of the list
weak_patterns ==
    <<"password", "secret", "key", "test", "demo", "example", "123456", "qwerty", "abc", "admin">>

\* validate_secret_key where the length alone decides the strength
validate_secret_key_length_only(key) ==
    IF key = "" THEN [valid |-> FALSE, strength |-> "invalid", warnings |-> 1]
    ELSE [valid |-> TRUE,
          strength |-> IF Len(key) < 32 THEN "weak" ELSE IF Len(key) < 64 THEN "medium" ELSE "strong",
          warnings |-> IF Len(key) < 32 THEN 1 ELSE 0]

\* validate_secret_key: valid, strength, and the number of warnings.  The
\* strength set by the length is overwritten by each weak pattern found.
validate_secret_key(key) ==
    IF key = "" THEN [valid |-> FALSE, strength |-> "invalid", warnings |-> 1]
    ELSE LET by_length == IF Len(key) < 32 THEN "weak"
                          ELSE IF Len(key) < 64 THEN "medium" ELSE "strong"
             key_lower == lower(key)
             found == {i \in 1..Len(weak_patterns) : contains(key_lower, weak_patterns[i])}
         IN  [valid |-> TRUE,
              strength |-> IF found # {} THEN "weak" ELSE by_length,
              warnings |-> (IF Len(key) < 32 THEN 1 ELSE 0) + Cardinality(found)]

\* SignatureAuthConfig._validate_configuration: the exception raised, "" if none
validate_configuration(s) ==
    IF s.SECRET_KEY = "" THEN "ImproperlyConfigured"
    ELSE IF ~validate_secret_key(s.SECRET_KEY).valid THEN "ImproperlyConfigured"
    ELSE ""

\* SignatureAuthConfig._validate_configuration: warnings.warn is called
weak_key_warning(s) ==
    validate_configuration(s) = "" /\ validate_secret_key(s.SECRET_KEY).strength = "weak"

\* SignatureAuthConfig._check_cache_configuration
check_cache_configuration(s, probe_ok) ==
    IF ~probe_ok /\ ~s.use_cache_fallback THEN "ImproperlyConfigured" ELSE ""

\* SignatureAuthConfig.ready
ready(s, probe_ok) ==
    IF validate_configuration(s) # "" THEN validate_configuration(s)
    ELSE check_cache_configuration(s, probe_ok)

\* _setup_cache_backend: self.cache_available after the probe
setup_cache_backend(probe_ok) == probe_ok

\* _init_nonce_tracking that goes on without a store
init_nonce_tracking_no_raise(available, use_cache_fallback) ==
    [fallback_store_set |-> ~available /\ use_cache_fallback, error |-> ""]

\* _init_nonce_tracking
init_nonce_tracking(available, use_cache_fallback) ==
    [fallback_store_set |-> ~available /\ use_cache_fallback,
     error |-> IF ~available /\ ~use_cache_fallback THEN "RuntimeError" ELSE ""]

\* _validate_config that accepts an empty key
validate_config_accepts_empty(key) == ""

\* _validate_config
validate_config(key) == IF key = "" THEN "ValueError" ELSE ""

\* Before startup: the settings are any, nothing has been called
StartInit ==
    /\ now = 0
    /\ cache_available = FALSE
    /\ cache = EmptyMap
    /\ fallback_store = NewStore(0, fallback_max_size)
    /\ req = [w \in Workers |-> IdleRequest]
    /\ accepted = EmptyMap
    /\ \E key \in {"", secret_key}, use_cache_fallback \in BOOLEAN :
          settings = [RunningSettings(FALSE) EXCEPT
                        !.ready = "", !.ready_warned = FALSE, !.init = "", !.probe = "",
                        !.SECRET_KEY = key, !.use_cache_fallback = use_cache_fallback]
    /\ last_eviction = NoEviction
    /\ last_call = NoCall

\* Django calls ready() of the app, where the app is installed, before it
\* builds the middleware
Ready ==
    /\ settings.ready = "" /\ settings.init = ""
    /\ \E probe_ok \in BOOLEAN :
         settings' = [settings EXCEPT
                        !.ready = IF ready(settings, probe_ok) = "" THEN "ok"
                                  ELSE ready(settings, probe_ok),
                        !.ready_warned = weak_key_warning(settings)]
    /\ UNCHANGED <<now, cache_available, cache, fallback_store, req, accepted, last_eviction, last_call>>

\* Django builds the middleware, unless ready() raised: __init__
Construct ==
    /\ settings.init = "" /\ settings.ready \in {"", "ok"}
    /\ \E probe_ok \in BOOLEAN :
         LET available == setup_cache_backend(probe_ok)
             tracking == init_nonce_tracking(available, settings.use_cache_fallback)
             error == IF tracking.error # "" THEN tracking.error
                      ELSE validate_config(settings.SECRET_KEY)
         IN  /\ cache_available' = available
             /\ fallback_store' = IF tracking.fallback_store_set
                                  THEN NewStore(now, fallback_max_size)
                                  ELSE fallback_store
             /\ settings' = [settings EXCEPT
                               !.probe = IF probe_ok THEN "ok" ELSE "failed",
                               !.fallback_store_set = tracking.fallback_store_set,
                               !.init = IF error = "" THEN "ok" ELSE error]
    /\ UNCHANGED <<now, cache, req, accepted, last_eviction, last_call>>

\* the server takes requests once the middleware is built
Serve(w) == settings.init = "ok" /\ ReceiveAt(w)

StartNext ==
    \/ QuietTick
    \/ Ready
    \/ Construct
    \/ \E w \in Workers : Serve(w)
    \/ \E w \in Workers : NonceCheck(w)
    \/ \E w \in Workers : VerifyAndMark(w)
    \/ \E w \in Workers : Handle(w)
    \/ \E w \in Workers : Finish(w)

StartSpec == StartInit /\ [][StartNext]_vars

\* -----------------------------------------------------------------
\* Startup with secret keys of every length and content
\* -----------------------------------------------------------------
\* text, followed by as many "x" as make it n characters long
RECURSIVE Pad(_, _)
Pad(text, n) == IF Len(text) >= n THEN text ELSE Pad(text \o "x", n)

\* The keys an operator may set: none, the key of the other runs, keys just
\* below and at the two length limits, and long keys that hold a weak pattern
\* (at the start, in capitals, at the end) or only a part of one
SecretKeys ==
    {"", secret_key, "k", Pad("", 31), Pad("", 32), Pad("", 63), Pad("", 64), Pad("", 65),
     Pad("Admin", 64), Pad("PASSword", 40), Pad("", 61) \o "abc", Pad("ke", 64),
     Pad("12345", 33), Pad("x123456", 32)}

KeyInit ==
    /\ now = 0
    /\ cache_available = FALSE
    /\ cache = EmptyMap
    /\ fallback_store = NewStore(0, fallback_max_size)
    /\ req = [w \in Workers |-> IdleRequest]
    /\ accepted = EmptyMap
    /\ \E key \in SecretKeys, use_cache_fallback \in BOOLEAN :
          settings = [RunningSettings(FALSE) EXCEPT
                        !.ready = "", !.ready_warned = FALSE, !.init = "", !.probe = "",
                        !.SECRET_KEY = key, !.use_cache_fallback = use_cache_fallback]
    /\ last_eviction = NoEviction
    /\ last_call = NoCall

KeyNext ==
    \/ QuietTick
    \/ Ready
    \/ Construct

KeySpec == KeyInit /\ [][KeyNext]_vars

\* -----------------------------------------------------------------
\* The signed message as a string: requests whose fields may hold a "|"
\* -----------------------------------------------------------------
\* What a request is made of here: method, path, body (sent as text/plain, so
\* signed as it is), X-Timestamp and X-Nonce, all as the strings they are
Fields ==
    [method : {"POST", "post"},
     path : {"/api/p", "/api/p|x"},
     body : {"", "x", "x|120|n2"},
     timestamp : {"60", "120"},
     nonce : {"n1", "n2", "n2|60|n1"}]

\* the five values that the message is made from
Signed(f) == <<upper(f.method), f.path, f.body, f.timestamp, f.nonce>>

\* create_manual_signature and _calculate_request_signature on such a request
signature_of(f, key) ==
    hmac_new(key, format_message(upper(f.method), f.path, f.body, f.timestamp, f.nonce))

\* no request at hand
MsgIdle ==
    LET NoFields == [method |-> "", path |-> "", body |-> "", timestamp |-> "", nonce |-> ""]
    IN  [pc |-> "idle", signed |-> NoFields, sent |-> NoFields, sig |-> NoSig, verified |-> FALSE]

MsgInit ==
    /\ now = 0
    /\ cache_available \in BOOLEAN
    /\ cache = EmptyMap
    /\ fallback_store = NewStore(0, fallback_max_size)
    /\ req = [w \in Workers |-> MsgIdle]
    /\ accepted = EmptyMap
    /\ settings = RunningSettings(~cache_available)
    /\ last_eviction = NoEviction
    /\ last_call = NoCall

\* A client signs a request with the shared secret; the request and its
\* X-Signature are seen on the wire.  One request at a time.
MsgSign(w) ==
    /\ FirstFree(w) /\ Quiescent
    /\ \E f \in Fields :
         req' = [req EXCEPT ![w] = [MsgIdle EXCEPT !.pc = "signed", !.signed = f,
                                                   !.sig = signature_of(f, secret_key)]]
    /\ UNCHANGED <<now, cache_available, cache, fallback_store, accepted, settings, last_eviction, last_call>>

\* The server is sent a request, the same or another, with that X-Signature:
\* _validate_signature, the signature check
MsgVerify(w) ==
    /\ req[w].pc = "signed"
    /\ \E f \in Fields :
         req' = [req EXCEPT ![w].pc = "checked", ![w].sent = f,
                            ![w].verified = compare_digest(req[w].sig, signature_of(f, secret_key))]
    /\ UNCHANGED <<now, cache_available, cache, fallback_store, accepted, settings, last_eviction, last_call>>

\* the request is answered
MsgDone(w) ==
    /\ req[w].pc = "checked"
    /\ req' = [req EXCEPT ![w] = MsgIdle]
    /\ UNCHANGED <<now, cache_available, cache, fallback_store, accepted, settings, last_eviction, last_call>>

MsgNext ==
    \/ \E w \in Workers : MsgSign(w)
    \/ \E w \in Workers : MsgVerify(w)
    \/ \E w \in Workers : MsgDone(w)

MsgSpec == MsgInit /\ [][MsgNext]_vars

\* -----------------------------------------------------------------
\* OptimizedInMemoryNonceStore on its own, called in any order
\* -----------------------------------------------------------------
\* the nonces the store is called with, and the max_size it is built with
StoreNonces == <<"m1", "m2", "m3", "m4", "m5", "m6", "m7", "m8", "m9", "m10">>
StoreSizes == {1, 2, 8}

\* The store on its own is watched at twice the resolution: here one step of
\* the clock is 30 seconds, and _cleanup_interval is two of them
StoreInit ==
    /\ now = 0
    /\ cache_available = FALSE
    /\ cache = EmptyMap
    /\ \E max_size \in StoreSizes :
          fallback_store = [NewStore(0, max_size) EXCEPT
                              !.cleanup_interval = 2 * cleanup_interval]
    /\ req = [w \in Workers |-> IdleRequest]
    /\ accepted = EmptyMap
    /\ settings = RunningSettings(TRUE)
    /\ last_eviction = NoEviction
    /\ last_call = NoCall

\* the nonces that are sent more than once
Replayed == {"m1"}
\* The callers use the nonces in order: the next one after those the store
\* holds, or one of the nonces that are replayed
Callable(n) ==
    \/ n \in Replayed
    \/ \E i \in 1..Len(StoreNonces) :
          /\ n = StoreNonces[i]
          /\ \A j \in i..Len(StoreNonces) : StoreNonces[j] \notin DOMAIN fallback_store.store
          /\ i > 1 => StoreNonces[i - 1] \in DOMAIN fallback_store.store

StoreTick ==
    /\ now < MaxTime
    /\ now' = now + 1
    /\ UNCHANGED <<cache_available, cache, fallback_store, req, accepted, settings,
                   last_eviction, last_call>>

\* is_used(nonce)
StoreIsUsed ==
    /\ \E n \in {StoreNonces[i] : i \in 1..Len(StoreNonces)} :
         /\ Callable(n)
         /\ fallback_store' = is_used(fallback_store, n, now).store
         /\ last_call' = [op |-> "is_used", nonce |-> n, expiry |-> 0, t |-> now,
                          before |-> fallback_store,
                          ret |-> is_used(fallback_store, n, now).ret,
                          touched |-> Touched]
    /\ UNCHANGED <<now, cache_available, cache, req, accepted, settings, last_eviction>>

\* mark_used(nonce, expiry_time), the expiry that of a request stamped now
StoreMarkUsed ==
    /\ \E n \in {StoreNonces[i] : i \in 1..Len(StoreNonces)} :
         /\ Callable(n)
         /\ fallback_store' = mark_used(fallback_store, n, expiry_of(now), now)
         /\ last_call' = [op |-> "mark_used", nonce |-> n, expiry |-> expiry_of(now),
                          t |-> now, before |-> fallback_store, ret |-> FALSE,
                          touched |-> Touched]
    /\ last_eviction' =
          IF make_room(fallback_store) # fallback_store
          THEN [before |-> fallback_store.access_times,
                after |-> make_room(fallback_store).access_times]
          ELSE last_eviction
    /\ UNCHANGED <<now, cache_available, cache, req, accepted, settings>>

StoreNext == StoreTick \/ StoreIsUsed \/ StoreMarkUsed

StoreSpec == StoreInit /\ [][StoreNext]_vars

\* -----------------------------------------------------------------
\* OptimizedInMemoryNonceStore called by two threads, statement by statement
\* -----------------------------------------------------------------
\* a lock that excludes nobody
acquirable_always(s, w) == TRUE

\* with self._lock: thread w can take the RLock when it is free or its own
acquirable(s, w) == s.lock \in {0, w}

LockInit == StoreInit /\ fallback_store.max_size \in {1, 2}

\* Thread w calls is_used(n), mark_used(n, expiry) or get_stats(), and is at
\* the with statement
Call(w) ==
    /\ FirstFree(w)
    /\ \E op \in {"is_used", "mark_used", "get_stats"}, n \in {"m1", "m2", "m3"} :
         /\ Callable(n)
         /\ op = "get_stats" => n = "m1"
         /\ req' = [req EXCEPT ![w] =
                      [IdleRequest EXCEPT !.pc = "with", !.method = op, !.nonce = n]]
    /\ UNCHANGED <<now, cache_available, cache, fallback_store, accepted, settings,
                   last_eviction, last_call>>

\* Thread w takes the lock and enters the with block.  The call takes far
\* less than a step of the clock: every time.time() in it reads the same time.
Enter(w) ==
    LET op == req[w].method
        n == req[w].nonce
    IN  /\ req[w].pc = "with"
        /\ acquirable(fallback_store, w)
        /\ req' = [req EXCEPT
                     ![w].pc = IF op = "is_used" THEN "is_used: cleanup"
                               ELSE IF op = "mark_used" THEN "mark_used: evict"
                               ELSE "get_stats: count",
                     ![w].current_time = now]
        /\ last_call' = [op |-> op, nonce |-> n,
                         expiry |-> IF op = "mark_used" THEN expiry_of(now) ELSE 0,
                         t |-> now, before |-> fallback_store, ret |-> FALSE,
                         touched |-> last_call.touched]
        /\ fallback_store' = [fallback_store EXCEPT !.lock = w]
        /\ UNCHANGED <<now, cache_available, cache, accepted, settings, last_eviction>>

\* Thread w runs the next statement of the method it is in
Proceed(w) ==
    LET rq == req[w]
        s == fallback_store
        n == rq.nonce
        t == rq.current_time
        to(pc) == [req EXCEPT ![w].pc = pc]
    IN  /\ rq.pc \notin {"idle", "with", "return"}
        /\ IF rq.pc = "is_used: cleanup"
           THEN fallback_store' = cleanup_if_needed(s, t) /\ req' = to("is_used: lookup")
           ELSE IF rq.pc = "is_used: lookup"
           THEN /\ fallback_store' =
                      IF n \in DOMAIN s.store
                      THEN [s EXCEPT !.access_times = DictSet(s.access_times, n, t)]
                      ELSE s
                /\ req' = [req EXCEPT ![w].pc = "return",
                                      ![w].is_valid = n \in DOMAIN s.store /\ t <= s.store[n]]
           ELSE IF rq.pc = "mark_used: evict"
           THEN fallback_store' = make_room(s) /\ req' = to("mark_used: store")
           ELSE IF rq.pc = "mark_used: store"
           THEN /\ fallback_store' = [s EXCEPT !.store = MapSet(s.store, n, expiry_of(t))]
                /\ req' = to("mark_used: access")
           ELSE IF rq.pc = "mark_used: access"
           THEN /\ fallback_store' = [s EXCEPT !.access_times = DictSet(s.access_times, n, t)]
                /\ req' = to("mark_used: cleanup")
           ELSE IF rq.pc = "mark_used: cleanup"
           THEN fallback_store' = cleanup_if_needed(s, t) /\ req' = to("return")
           ELSE /\ fallback_store' = s
                /\ req' = [req EXCEPT ![w].pc = "return",
                                      ![w].context = get_stats(s, t)]
        /\ last_eviction' =
              IF rq.pc = "mark_used: evict" /\ make_room(s) # s
              THEN [before |-> s.access_times, after |-> make_room(s).access_times]
              ELSE last_eviction
        /\ UNCHANGED <<now, cache_available, cache, accepted, settings, last_call>>

\* Thread w leaves the with block and the method returns
Leave(w) ==
    /\ req[w].pc = "return"
    /\ fallback_store' = [fallback_store EXCEPT !.lock = 0]
    /\ last_call' = [last_call EXCEPT !.ret = req[w].is_valid]
    /\ req' = [req EXCEPT ![w] = IdleRequest]
    /\ UNCHANGED <<now, cache_available, cache, accepted, settings, last_eviction>>

LockNext ==
    \/ QuietTick
    \/ \E w \in Workers : Call(w)
    \/ \E w \in Workers : Enter(w)
    \/ \E w \in Workers : Proceed(w)
    \/ \E w \in Workers : Leave(w)

LockSpec == LockInit /\ [][LockNext]_vars

\* =================================================================
\* Properties
\* =================================================================
Finished(rq) == State(rq) \in {"AUTHENTICATED", "REJECTED"}
\* the signature a client holding the secret key puts on the request as sent
CorrectlySigned(rq) ==
    rq.sig = hmac_new(secret_key, Message(upper(rq.method), rq.path,
                                          normalize_request_body(rq), rq.ts, rq.nonce))
HeadersPresent(rq) == rq.sig.kind # "missing" /\ rq.ts.kind # "missing" /\ rq.nonce # ""
\* the age of the request when its freshness was checked
Age(rq) == Abs(rq.current_time - rq.ts.val)
\* the nonce records of the store that is active: nonce -> expiry
Records == IF cache_available THEN cache ELSE fallback_store.store
\* the active store holds nonce n as used at time t
RecordedAt(n, t) ==
    IF cache_available
    THEN n \in DOMAIN cache /\ t < cache[n]
    ELSE n \in DOMAIN fallback_store.store /\ t <= fallback_store.store[n]
NoStoreError(rq) == ~rq.get_failed /\ ~rq.set_failed

\* C1: two requests that carry the same nonce, which no request was authenticated
\* with before, both fresh and correctly signed, the second arriving while the
\* first is still being validated, the store answering every call: once both
\* are decided, exactly one is AUTHENTICATED and the other is REJECTED with
\* "Replay attack detected".
C1_ExactlyOneOfConcurrentSameNonce ==
    \A w1 \in Workers, w2 \in Workers :
        LET a == req[w1]
            b == req[w2]
        IN  ( /\ w1 # w2
              /\ a.nonce = b.nonce
              /\ a.novel
              /\ w1 \in b.during
              /\ CorrectlySigned(a) /\ CorrectlySigned(b)
              /\ NoStoreError(a) /\ NoStoreError(b)
              /\ Finished(a) /\ Finished(b) )
            => \/ /\ State(a) = "AUTHENTICATED"
                  /\ State(b) = "REJECTED"
                  /\ b.message.text = "Replay attack detected"
               \/ /\ State(b) = "AUTHENTICATED"
                  /\ State(a) = "REJECTED"
                  /\ a.message.text = "Replay attack detected"

\* C2: a request that carries the nonce of a request authenticated (and recorded)
\* before it arrived, and whose timestamp is inside the window when it arrives,
\* is REJECTED with "Replay attack detected".  Stated for the exact replay, the
\* later request that repeats the timestamp and the signature as well.
C2_ReplayInWindowRejected ==
    \A w \in Workers :
        LET rq == req[w]
        IN  (rq.replay /\ CorrectlySigned(rq) /\ Age(rq) <= signature_window
             /\ Finished(rq))
            => (State(rq) = "REJECTED" /\ rq.message.text = "Replay attack detected")

\* C3: a request is AUTHENTICATED only if its three headers were present, the
\* timestamp was an integer, its age was at most the window, the nonce store
\* answered "unused" and the signature is the HMAC under the secret key of
\* method|path|body|timestamp|nonce of the request; a decided request that
\* misses any of these is REJECTED.
AllChecksHeld(rq) ==
    /\ HeadersPresent(rq)
    /\ rq.ts.kind = "int"
    /\ Age(rq) <= signature_window
    /\ rq.nonce_checked = "unused"
    /\ rq.sig = hmac_new(secret_key, Message(upper(rq.method), rq.path,
                                             normalize_request_body(rq), rq.ts, rq.nonce))
C3_AuthenticatedOnlyIfAllChecks ==
    \A w \in Workers :
        /\ State(req[w]) = "AUTHENTICATED" => AllChecksHeld(req[w])
        /\ (Finished(req[w]) /\ ~AllChecksHeld(req[w])) => State(req[w]) = "REJECTED"
\* a request has been authenticated
C3_Witness == \E w \in Workers : State(req[w]) = "AUTHENTICATED" /\ req[w].pc = "handler"

\* C4: the rejection message is that of the first check that fails, in the order
\* missing headers, timestamp format, freshness, nonce replay, signature; once a
\* check has failed the later ones are not made (the nonce store is not asked
\* after a header check failed, the signature is not compared after a replay).
FirstFailure(rq) ==
    IF ~HeadersPresent(rq) THEN "Missing headers"
    ELSE IF rq.ts.kind # "int" THEN "Invalid timestamp format"
    ELSE IF Age(rq) > signature_window THEN "Request expired"
    ELSE IF rq.nonce_checked = "used" THEN "Replay attack detected"
    ELSE IF rq.sig.kind = "nonascii" THEN "Validation error"
    ELSE IF ~CorrectlySigned(rq) THEN "Invalid signature"
    ELSE "Valid signature"
C4_FirstFailingCheckDecides ==
    \A w \in Workers :
        LET rq == req[w]
        IN  Finished(rq) =>
              /\ rq.message.text = FirstFailure(rq)
              /\ rq.message.text \in {"Missing headers", "Invalid timestamp format",
                                      "Request expired"}
                    => (rq.nonce_checked = "" /\ ~rq.sig_checked)
              /\ rq.message.text = "Replay attack detected" => ~rq.sig_checked
\* a request with a used nonce and a wrong signature has been rejected as a replay
C4_Witness ==
    \E w \in Workers :
        /\ State(req[w]) = "REJECTED"
        /\ req[w].nonce_checked = "used"
        /\ ~req[w].get_failed
        /\ ~CorrectlySigned(req[w])
        /\ req[w].message.text = "Replay attack detected"

\* C5: a request with its headers present and an integer timestamp is rejected
\* with "Request expired (age: Ns)", N = |now - timestamp|, exactly when
\* |now - timestamp| > signature_window; with an age up to the window it goes on
\* to the nonce check.
C5_ExpiredExactlyBeyondWindow ==
    \A w \in Workers :
        LET rq == req[w]
        IN  (rq.pc # "idle" /\ HeadersPresent(rq) /\ rq.ts.kind = "int") =>
              /\ (rq.message.text = "Request expired") <=> (Age(rq) > signature_window)
              /\ Age(rq) > signature_window =>
                    (State(rq) = "REJECTED" /\ rq.message.age = Age(rq))
              /\ Age(rq) <= signature_window =>
                    (rq.pc = "nonce_check" \/ rq.nonce_checked # "")
\* a request whose age is exactly the window has been authenticated
C5_Witness ==
    \E w \in Workers :
        /\ req[w].ts.kind = "int"
        /\ Age(req[w]) = signature_window
        /\ State(req[w]) = "AUTHENTICATED"

\* C6: the nonce of an authenticated request with timestamp T, once recorded,
\* is held as used by the active store at every time at which T still passes
\* the freshness check.
C6_RecordedWhileTimestampFresh ==
    \A n \in DOMAIN accepted :
        (accepted[n].recorded /\ Abs(now - accepted[n].ts) <= signature_window)
        => RecordedAt(n, now)

\* C7: a nonce record appears or changes only in the step that authenticates a
\* request carrying that nonce, a request that passed the freshness and the
\* signature check; no step of a request that ends REJECTED adds a record.
C7_OnlyAuthenticationRecords ==
    [][\A n \in DOMAIN Records' :
          (n \notin DOMAIN Records \/ Records'[n] # Records[n])
          => \E w \in Workers :
               /\ req[w].pc = "verify"
               /\ req[w].nonce = n
               /\ State(req'[w]) = "AUTHENTICATED"
               /\ Age(req[w]) <= signature_window
               /\ CorrectlySigned(req[w])]_vars
\* a wrongly signed request with an unused nonce has been rejected and its nonce
\* is not recorded
C7_Witness ==
    \E w \in Workers :
        /\ State(req[w]) = "REJECTED"
        /\ req[w].message.text = "Invalid signature"
        /\ req[w].nonce \notin DOMAIN Records

\* C8: a request during whose validation the nonce store raised on the is-used
\* query, or an exception reached _validate_signature's handler, is REJECTED and
\* never reaches the handler.
C8_FailSecureOnNonceCheck ==
    \A w \in Workers :
        (req[w].get_failed \/ req[w].raised)
        => (State(req[w]) = "REJECTED" /\ ~req[w].handled /\ req[w].response.status = 401)
\* the cache raised on the is-used query of a correctly signed request
C8_Witness ==
    \E w \in Workers : req[w].get_failed /\ CorrectlySigned(req[w]) /\ Finished(req[w])

\* C9: no request is AUTHENTICATED unless the store has taken its nonce: when the
\* call that records the nonce fails the request is REJECTED.
C9_AuthenticatedOnlyIfRecorded ==
    \A w \in Workers : State(req[w]) = "AUTHENTICATED" => req[w].marked

\* C10: the handler runs for a request exactly when validation ended
\* AUTHENTICATED, and the context is attached before it runs; a REJECTED request
\* never reaches the handler and is answered 401, code SIGNATURE_INVALID, with
\* the rejection reason as message.
C10_HandlerIffAuthenticated ==
    \A w \in Workers :
        LET rq == req[w]
        IN  /\ rq.handled => State(rq) = "AUTHENTICATED"
            /\ (State(rq) = "AUTHENTICATED" /\ rq.pc = "done") => rq.handled
            /\ State(rq) = "AUTHENTICATED" =>
                  /\ rq.context.authenticated
                  /\ rq.context.request_id # ""
                  /\ rq.context.client_ip # ""
                  /\ rq.context.cache_backend = backend_name
                  /\ rq.context.timestamp = rq.current_time
            /\ State(rq) = "REJECTED" =>
                  /\ ~rq.handled
                  /\ rq.pc = "done"
                  /\ rq.response.status = 401
                  /\ rq.response.code = "SIGNATURE_INVALID"
                  /\ rq.response.message = rq.message
                  /\ rq.context = NoContext
\* a handler has run for an authenticated request
C10_Witness == \E w \in Workers : req[w].handled /\ req[w].response.status = 200

\* C11: a request enters validation exactly when its path starts with a protected
\* prefix and with no excluded prefix; any other request goes to the handler
\* with no validation result, the nonce store neither asked nor written for it,
\* no authenticated context attached, and its response is the handler's.
ShouldValidate(path) ==
    /\ \E p \in protected_paths : startswith(path, p)
    /\ ~ \E e \in excluded_paths : startswith(path, e)
EnteredValidation(rq) == InValidation(rq) \/ rq.message # NoMsg
C11_ValidatedIffProtectedPath ==
    \A w \in Workers :
        LET rq == req[w]
        IN  rq.pc # "idle" =>
              /\ EnteredValidation(rq) <=> ShouldValidate(rq.path)
              /\ ~ShouldValidate(rq.path) =>
                    /\ rq.pc \in {"handler", "done"}
                    /\ rq.nonce_checked = "" /\ ~rq.sig_checked /\ ~rq.marked
                    /\ ~rq.is_valid
                    /\ rq.context = NoContext
                    /\ rq.pc = "done" => (rq.handled /\ rq.response = HandlerResponse)
\* a signed request to a path under a protected and an excluded prefix has been
\* answered by the handler
C11_Witness ==
    \E w \in Workers :
        /\ req[w].pc = "done"
        /\ req[w].handled
        /\ req[w].sig.kind = "hmac"
        /\ \E p \in protected_paths : startswith(req[w].path, p)
        /\ \E e \in excluded_paths : startswith(req[w].path, e)

\* C12: whatever the max_size and the calls made, the in-process store never
\* holds more than max_size entries.
C12_StoreSizeAtMostMax ==
    Cardinality(DOMAIN fallback_store.store) <= fallback_store.max_size
\* an eviction has taken place and the store is full again
C12_Witness ==
    /\ last_eviction.before # <<>>
    /\ Cardinality(DOMAIN fallback_store.store) = fallback_store.max_size
    /\ fallback_store.max_size > 1

\* C13: an eviction, made by mark_used when the store holds n >= max_size
\* entries, removes exactly max(1, n div 4) of them and leaves the others as
\* they were; every entry removed was last accessed no later than every entry
\* that stays.
Evicted == DictKeys(last_eviction.before) \ DictKeys(last_eviction.after)
C13_EvictsLeastRecentQuarter ==
    LET before == last_eviction.before
        after == last_eviction.after
        n == Len(before)
    IN  before # <<>> =>
          /\ n >= fallback_store.max_size
          /\ Cardinality(Evicted) = Max(1, n \div 4)
          /\ after = DictDrop(before, Evicted)
          /\ \A r \in Evicted, v \in DictKeys(after) :
                DictVal(before, r) <= DictVal(before, v)
\* two entries were evicted and an entry inserted before them, accessed later
\* than them, has stayed
C13_Witness ==
    /\ Cardinality(Evicted) = 2
    /\ \E r \in Evicted, v \in DictKeys(last_eviction.after) :
          /\ DictGet(last_eviction.before, v) < DictGet(last_eviction.before, r)
          /\ DictVal(last_eviction.before, v) > DictVal(last_eviction.before, r)

\* the response of a request on a protected path has left as JSON
LeftAsJson(rq) ==
    /\ rq.pc = "done"
    /\ is_protected_path(rq.path)
    /\ is_json_type(rq.response.content_type)

C15_NoInternalsIn401 ==
    \A w \in Workers :
        (req[w].pc = "done" /\ State(req[w]) = "REJECTED" /\ ~settings.debug_mode)
        => DictKeys(req[w].response.content.pairs)
             \cap {"debug", "cache_backend", "authenticated"} = {}

\* C16: the enrichment only adds: every key of the JSON object returned keeps its
\* value in the content that leaves, the keys that are new are among timestamp,
\* request_id, authenticated, user, cache_backend, and a content that is not
\* JSON leaves as it was returned.
MetadataKeys == {"timestamp", "request_id", "authenticated", "user", "cache_backend"}
C16_EnrichmentOnlyAdds ==
    \A w \in Workers :
        LET original == req[w].returned.content
            final == req[w].response.content
            data == json_loads(original.pairs)
        IN  LeftAsJson(req[w]) =>
              /\ original.kind = "json" =>
                    /\ final.kind = "json"
                    /\ \A k \in DictKeys(data) :
                          DictHas(final.pairs, k)
                          /\ DictVal(final.pairs, k) = DictVal(data, k)
                    /\ DictKeys(final.pairs) \ DictKeys(data) \subseteq MetadataKeys
              /\ original.kind = "text" => final = original
\* a handler's object that holds authenticated = false has left with fields added
\* and authenticated still false
C16_Witness ==
    \E w \in Workers :
        /\ LeftAsJson(req[w])
        /\ req[w].handled
        /\ DictHas(req[w].returned.content.pairs, "authenticated")
        /\ DictHas(req[w].response.content.pairs, "timestamp")
        /\ ~DictHas(req[w].returned.content.pairs, "timestamp")
        /\ DictVal(req[w].response.content.pairs, "authenticated") = "false"

\* the validator compared the signature of request rq and found it right
Verified(rq) == rq.sig_checked /\ rq.message.text # "Invalid signature"

\* C17: a request signed by create_manual_signature and sent as it was signed
\* verifies when the validator recomputes the signature, and a request in which
\* one character of the method, path, body, timestamp or nonce was changed
\* after signing does not
C17_SignatureRoundTripAndTamper ==
    \A w \in Workers :
        (req[w].tamper # "" /\ req[w].sig_checked) =>
            (Verified(req[w]) <=> req[w].tamper = "none")

\* the JSON texts that denote the object of body: its members in any order,
\* with or without white space
SameObject(body) ==
    LET n == Len(body.pairs)
        orders == {f \in [1..n -> 1..n] : \A i, j \in 1..n : i # j => f[i] # f[j]}
    IN  {JsonText([i \in 1..n |-> body.pairs[f[i]]], spaced) :
            f \in orders, spaced \in BOOLEAN}

\* a JSON object came in a request declared as JSON
JsonObjectReceived(rq) ==
    rq.pc # "idle" /\ rq.body.kind = "json" /\ is_json_type(rq.content_type)

\* C18: every JSON text that denotes the same object as a received JSON body,
\* whatever the order of its keys, canonicalizes to the same string as the
\* body, and canonicalizing that string gives it back unchanged
C18_CanonicalizationOrderIndependentIdempotent ==
    \A w \in Workers :
        JsonObjectReceived(req[w]) =>
            LET canonical == normalize_request_body(req[w]) IN
                /\ \A other \in SameObject(req[w].body) :
                       normalize_request_body([req[w] EXCEPT !.body = other]) = canonical
                /\ normalize_request_body([req[w] EXCEPT !.body = canonical]) = canonical

\* a body with its keys out of order was canonicalized for the signature
C18_Witness ==
    \E w \in Workers :
        /\ JsonObjectReceived(req[w])
        /\ req[w].sig_checked
        /\ req[w].body.pairs[1][1] = "b"
        /\ normalize_request_body(req[w]).pairs[1][1] = "a"

\* no request was validated, passed through or signed
NoRequestProcessed ==
    /\ \A w \in Workers : req[w] = IdleRequest
    /\ accepted = EmptyMap
    /\ cache = EmptyMap
    /\ fallback_store.store = EmptyMap

\* C19: once the constructor has returned, exactly one nonce store is active
\* and only that one is ever written: the cache if the probe of the
\* constructor succeeded, else the in-process store, which takes fallback to be
\* enabled; when the probe failed and fallback is disabled the constructor
\* raised, and after a startup that raised no request is processed
C19_ExactlyOneStoreAfterStartup ==
    /\ settings.init = "ok" =>
          /\ cache_available # settings.fallback_store_set
          /\ cache_available <=> settings.probe = "ok"
          /\ ~cache_available => settings.use_cache_fallback
          /\ cache_available => fallback_store.store = EmptyMap
          /\ ~cache_available => cache = EmptyMap
    /\ (settings.probe = "failed" /\ ~settings.use_cache_fallback) =>
          settings.init = "RuntimeError"
    /\ settings.init # "ok" => NoRequestProcessed

\* the probe failed, the in-process store took over and recorded a nonce
C19_Witness ==
    /\ settings.init = "ok"
    /\ settings.probe = "failed"
    /\ settings.fallback_store_set
    /\ fallback_store.store # EmptyMap

\* C20: with an empty secret key ready() has raised whenever it was called
\* and so has the constructor, and no request is ever validated, passed through
\* or signed
C20_NoSecretNoService ==
    settings.SECRET_KEY = "" =>
        /\ settings.ready \in {"", "ImproperlyConfigured"}
        /\ settings.init \in {"", "ValueError", "RuntimeError"}
        /\ NoRequestProcessed

\* the constructor was called with an empty secret key over a working cache,
\* and raised
C20_Witness ==
    /\ settings.SECRET_KEY = ""
    /\ settings.probe = "ok"
    /\ settings.init = "ValueError"

\* the last call to the store on its own evicted entries
CallEvicted ==
    /\ last_call.op = "mark_used"
    /\ last_eviction.before # <<>>
    /\ last_eviction.before = last_call.before.access_times

\* C22: is_used(n) that finds n stored leaves n's access time at the time of
\* the call; and in an eviction every entry removed was last named by a call
\* (inserted or checked) no later than every entry that stays, so an entry
\* checked after the others were inserted or checked outlives them
C22_IsUsedRefreshesAccessTime ==
    /\ (last_call.op = "is_used" /\ last_call.nonce \in DOMAIN fallback_store.store) =>
          DictVal(fallback_store.access_times, last_call.nonce) = last_call.t
    /\ CallEvicted =>
          \A r \in Evicted, v \in DictKeys(last_eviction.after) :
              last_call.touched[r].t <= last_call.touched[v].t

\* an entry inserted before another and checked by is_used after it has stayed
\* in the eviction that removed the other
C22_Witness ==
    /\ CallEvicted
    /\ \E r \in Evicted, v \in DictKeys(last_eviction.after) :
          /\ DictGet(last_eviction.before, v) < DictGet(last_eviction.before, r)
          /\ last_call.touched[v].op = "is_used"
          /\ last_call.touched[v].t > last_call.touched[r].t

\* C23: a call of is_used or mark_used made when at least the cleanup interval
\* has passed since the last cleanup leaves in the store, of the entries it
\* found (less those it evicted, plus the one it inserted), exactly those
\* whose expiry is not before the time of the call, each with its expiry and
\* (unless the call named it) its access time unchanged, and sets the
\* last-cleanup time to the time of the call; a call made sooner leaves all
\* of them and the last-cleanup time as they were
C23_LazyCleanup ==
    LET b == last_call.before
        a == fallback_store
        t == last_call.t
        due == t - b.last_cleanup >= b.cleanup_interval
        evicted == IF CallEvicted THEN Evicted ELSE {}
        found == IF last_call.op = "mark_used"
                 THEN (DOMAIN b.store \ evicted) \cup {last_call.nonce}
                 ELSE DOMAIN b.store
        expiry(n) == IF last_call.op = "mark_used" /\ n = last_call.nonce
                     THEN last_call.expiry ELSE b.store[n]
    IN  last_call.op # "" =>
          /\ DOMAIN a.store = IF due THEN {n \in found : ~(expiry(n) < t)} ELSE found
          /\ DictKeys(a.access_times) = DOMAIN a.store
          /\ \A n \in DOMAIN a.store :
                /\ a.store[n] = expiry(n)
                /\ n # last_call.nonce =>
                      DictVal(a.access_times, n) = DictVal(b.access_times, n)
          /\ a.last_cleanup = IF due THEN t ELSE b.last_cleanup

\* a call made when the interval had passed removed an expired entry and kept
\* another one
C23_Witness ==
    LET b == last_call.before
    IN  /\ last_call.op # ""
        /\ last_call.t - b.last_cleanup >= b.cleanup_interval
        /\ \E n \in DOMAIN b.store \ DOMAIN fallback_store.store :
              b.store[n] < last_call.t /\ ~(CallEvicted /\ n \in Evicted)
        /\ \E v \in DOMAIN b.store \cap DOMAIN fallback_store.store :
              v # last_call.nonce

\* C24: is_used(n) returns true exactly when n was stored and the time of the
\* call is not later than n's expiry, whether or not cleanup has removed the
\* entry; and a nonce marked again is held under its new expiry, so that
\* is_used answers for it by that expiry and no longer by the old one
C24_UsedExactlyUntilExpiry ==
    LET b == last_call.before
        n == last_call.nonce
        t == last_call.t
    IN  /\ last_call.op = "is_used" =>
              (last_call.ret <=> (n \in DOMAIN b.store /\ t <= b.store[n]))
        /\ last_call.op = "mark_used" =>
              /\ n \in DOMAIN fallback_store.store <=> t <= last_call.expiry
              /\ is_used(fallback_store, n, t).ret <=> t <= last_call.expiry

\* is_used returned false for a nonce whose expiry had passed and whose entry
\* cleanup had not removed, and left the entry in the store
C24_Witness ==
    /\ last_call.op = "is_used"
    /\ ~last_call.ret
    /\ last_call.nonce \in DOMAIN last_call.before.store
    /\ last_call.nonce \in DOMAIN fallback_store.store
    /\ last_call.t > fallback_store.store[last_call.nonce]

\* C25: at most one thread is inside a with block of the store, and it holds
\* the lock from its first statement to its return; when a method is about
\* to return, and then until the next call enters, the store is what the whole
\* method makes of the store it found when it entered, and what it returns is
\* what the whole method returns for that store: the calls take effect one
\* after another, in the order in which they entered
C25_StoreCallsAreSerial ==
    LET inside == {w \in Workers : req[w].pc \notin {"idle", "with"}}
        b == last_call.before
        n == last_call.nonce
        t == last_call.t
        whole == IF last_call.op = "is_used" THEN is_used(b, n, t).store
                 ELSE IF last_call.op = "mark_used" THEN mark_used(b, n, last_call.expiry, t)
                 ELSE b
    IN  /\ Cardinality(inside) <= 1
        /\ \A w \in inside : fallback_store.lock = w
        /\ inside = {} => fallback_store.lock = 0
        /\ \A w \in Workers :
              req[w].pc = "return" =>
                /\ [fallback_store EXCEPT !.lock = 0] = whole
                /\ last_call.op = "is_used" => req[w].is_valid = is_used(b, n, t).ret
                /\ last_call.op = "get_stats" => req[w].context = get_stats(b, t)
        /\ (inside = {} /\ last_call.op # "") =>
              /\ fallback_store = whole
              /\ last_call.op = "is_used" => last_call.ret = is_used(b, n, t).ret

\* a thread is at the with statement of mark_used while the other, inside
\* mark_used, has evicted an entry and not yet stored its nonce
C25_Witness ==
    /\ req[1].pc = "mark_used: store"
    /\ fallback_store.store # last_call.before.store
    /\ req[2].pc = "with"
    /\ req[2].method = "mark_used"

C27_SigningLeavesNonceStoreAlone ==
    [][\A w \in Workers :
          (req[w].response = NoResponse /\ req'[w].response # NoResponse) =>
              /\ req[w].pc = "handler" =>
                    (cache' = cache /\ fallback_store' = fallback_store)
              /\ cache' = cache
              /\ DOMAIN fallback_store'.store \subseteq DOMAIN fallback_store.store
              /\ req'[w].response.headers.nonce # "" =>
                    /\ req'[w].response.headers.nonce = "uuid4"
                    /\ req'[w].response.headers.nonce # req'[w].nonce]_vars

\* the signed response of an authenticated request has left and the nonce of
\* the request is still recorded
C27_Witness ==
    \E w \in Workers :
        /\ req[w].pc = "done"
        /\ State(req[w]) = "AUTHENTICATED"
        /\ req[w].response.headers.nonce = "uuid4"
        /\ RecordedAt(req[w].nonce, now)

\* C28: the response a handler returned for a path that is not protected, or
\* with a content type that is not JSON, leaves as the handler returned it:
\* same status, content type and content, and no signature, timestamp or
\* nonce header
C28_OtherResponsesUntouched ==
    \A w \in Workers :
        LET rq == req[w]
        IN  ( /\ rq.pc = "done"
              /\ rq.handled
              /\ ~ShouldValidate(rq.path) \/ ~is_json_type(rq.returned.content_type) )
            => /\ rq.response = rq.returned
               /\ rq.response.headers = NoHeaders

\* an authenticated request on a protected path was answered with HTML whose
\* text is a JSON object, and the answer left as it was
C28_Witness ==
    \E w \in Workers :
        /\ req[w].pc = "done"
        /\ State(req[w]) = "AUTHENTICATED"
        /\ req[w].returned.content_type = "text/html"
        /\ req[w].returned.content.kind = "json"
        /\ req[w].response = req[w].returned

\* C29: a request that lacks one of the three headers, or holds it empty, is
\* rejected with "Missing headers: <list>", the list naming exactly the
\* headers that lack, signature before timestamp before nonce; a request with
\* the three headers whose timestamp is no integer is rejected with "Invalid
\* timestamp format"; no other request gets either message; and for none of
\* them is the nonce store asked or written
C29_MissingHeadersAndTimestampFormat ==
    \A w \in Workers :
        LET rq == req[w]
            absent(h) == IF h = "signature" THEN rq.sig.kind = "missing"
                         ELSE IF h = "timestamp" THEN rq.ts.kind = "missing"
                         ELSE rq.nonce = ""
            list == SelectSeq(<<"signature", "timestamp", "nonce">>, absent)
        IN  Finished(rq) =>
              /\ list # <<>> <=> rq.message.text = "Missing headers"
              /\ list # <<>> => (State(rq) = "REJECTED" /\ rq.message.missing = list)
              /\ (list = <<>> /\ rq.ts.kind = "text")
                    <=> rq.message.text = "Invalid timestamp format"
              /\ rq.message.text = "Invalid timestamp format" => State(rq) = "REJECTED"
              /\ rq.message.text \in {"Missing headers", "Invalid timestamp format"} =>
                    (rq.nonce_checked = "" /\ ~rq.marked /\ ~rq.sig_checked)

\* a request with a timestamp and neither signature nor nonce was rejected
\* for the two headers it lacks
C29_Witness ==
    \E w \in Workers :
        /\ State(req[w]) = "REJECTED"
        /\ req[w].ts.kind = "int"
        /\ req[w].message.text = "Missing headers"
        /\ req[w].message.missing = <<"signature", "nonce">>

\* C30: for a request signed by create_manual_signature and sent as signed,
\* with the body given to it, the body string the client signed is the string
\* _normalize_request_body makes of the body that arrives, and when the
\* validator compares the signatures they are equal
C30_ClientAndServerSignTheSameMessage ==
    \A w \in Workers :
        (req[w].tamper = "none" /\ req[w].pc # "idle") =>
            /\ req[w].sig.message[3] = normalize_request_body(req[w])
            /\ req[w].sig = calculate_request_signature(req[w])
            /\ req[w].sig_checked => Verified(req[w])


\* C31: validate_secret_key finds an empty key invalid; every other key is valid
\* and weak if it has fewer than 32 characters or holds, in any case of
\* letters, one of the weak substrings, else medium if it has fewer than 64
\* characters, else strong.  At startup a weak key is warned of and ready()
\* does not raise because of it: once ready() has run, the warning was given
\* exactly for the weak keys, and ready() raised only for an empty key or for a
\* cache that is down with the fallback disabled.
C31_SecretKeyClassification ==
    LET key == settings.SECRET_KEY
        result == validate_secret_key(key)
        has_weak == \E i \in 1..Len(weak_patterns) : contains(lower(key), weak_patterns[i])
    IN  /\ key = "" => ~result.valid
        /\ key # "" =>
              /\ result.valid
              /\ result.strength = "weak" <=> (Len(key) < 32 \/ has_weak)
              /\ result.strength = "medium" <=> (Len(key) >= 32 /\ Len(key) < 64 /\ ~has_weak)
              /\ result.strength = "strong" <=> (Len(key) >= 64 /\ ~has_weak)
              /\ result.strength \in {"weak", "medium", "strong"}
        /\ settings.ready # "" =>
              /\ settings.ready_warned <=> (key # "" /\ result.strength = "weak")
              /\ (settings.ready # "ok") => (key = "" \/ ~settings.use_cache_fallback)

\* ready() has returned for a key of 64 characters that is weak only by a
\* pattern written in capitals, and it warned
C31_Witness ==
    /\ Len(settings.SECRET_KEY) >= 64
    /\ validate_secret_key(settings.SECRET_KEY).strength = "weak"
    /\ settings.SECRET_KEY # lower(settings.SECRET_KEY)
    /\ settings.ready = "ok"
    /\ settings.ready_warned
    /\ settings.init = "ok"

\* C32: the signed message is unambiguous: two requests that differ in the
\* upper-cased method, the path, the body, the timestamp string or the nonce
\* never give the same message string, so that a signature made for one
\* request is never found valid for a request that differs in one of them.
C32_MessageUnambiguous ==
    \A w \in Workers :
        LET f == req[w].signed
            g == req[w].sent
        IN  (req[w].pc = "checked" /\ Signed(f) # Signed(g)) =>
                /\ format_message(upper(f.method), f.path, f.body, f.timestamp, f.nonce)
                      # format_message(upper(g.method), g.path, g.body, g.timestamp, g.nonce)
                /\ ~req[w].verified

\* C33: in the in-process store no operation removes a nonce whose expiry has
\* not yet passed: a nonce stored with an expiry that the time after a call,
\* or after the clock moved, has not passed is still stored then, and is_used
\* returns true for it, whatever nonce the call was about.
C33_UnexpiredNonceStays ==
    [][\A n \in DOMAIN fallback_store.store :
          now' <= fallback_store.store[n] =>
              /\ n \in DOMAIN fallback_store'.store
              /\ is_used(fallback_store', n, now').ret]_vars

\* C34: the middleware writes authenticated = true into a response body only
\* for a request that passed validation: a content that leaves holding
\* authenticated = true that the content returned to the middleware did not
\* hold is that of an authenticated request, and the response to a rejected
\* request never holds authenticated = true.
C34_AuthenticatedTrueOnlyIfValid ==
    \A w \in Workers :
        LET left == req[w].response.content
            back == req[w].returned.content
            holds(content) ==
                /\ content.kind = "json"
                /\ DictHas(json_loads(content.pairs), "authenticated")
                /\ DictVal(json_loads(content.pairs), "authenticated") = "true"
        IN  req[w].pc = "done" =>
                /\ (holds(left) /\ ~holds(back)) => State(req[w]) = "AUTHENTICATED"
                /\ State(req[w]) = "REJECTED" => ~holds(left)

\* C35: the nonce of an authenticated request is recorded before its handler
\* starts: of two requests with the same nonce, neither of which arrived while
\* the other was being validated, so that the later one arrived while the
\* earlier one was with its handler or on its way out, the later one, its
\* headers present, its timestamp fresh and its signature right, is REJECTED
\* with "Replay attack detected" when the earlier one was AUTHENTICATED.
C35_ReplayDuringHandlerRejected ==
    \A w1 \in Workers, w2 \in Workers :
        LET a == req[w1]
            b == req[w2]
        IN  ( /\ w1 # w2
              /\ a.nonce = b.nonce
              /\ State(a) = "AUTHENTICATED"
              /\ w1 \notin b.during /\ w2 \notin a.during
              /\ HeadersPresent(b) /\ b.ts.kind = "int" /\ Age(b) <= signature_window
              /\ CorrectlySigned(b)
              /\ Finished(b) )
            => (State(b) = "REJECTED" /\ b.message.text = "Replay attack detected")

\* C36: the nonce store chosen by the constructor is the store for as long as
\* the middleware runs: cache_available and the presence of the in-process
\* store never change after startup, and the in-process store is never
\* written while the cache is the store.  A request on a protected path that
\* is decided while the cache is the store and raises on every call made for
\* it is REJECTED and does not reach the handler.
C36_StoreVariantFixedAfterStartup ==
    /\ [][settings.init = "ok" =>
             /\ settings'.init = "ok"
             /\ cache_available' = cache_available
             /\ settings'.fallback_store_set = settings.fallback_store_set
             /\ cache_available => fallback_store' = fallback_store]_vars
    /\ [](\A w \in Workers :
             ( /\ settings.init = "ok" /\ cache_available
               /\ Finished(req[w])
               /\ req[w].nonce_checked # "" => req[w].get_failed )
             => (State(req[w]) = "REJECTED" /\ ~req[w].handled))

\* the cache was chosen at startup, and it raised on the is-used query of a
\* request that was fresh and correctly signed; the request is decided
C36_Witness ==
    /\ settings.init = "ok" /\ cache_available
    /\ \E w \in Workers :
          /\ req[w].get_failed
          /\ CorrectlySigned(req[w]) /\ HeadersPresent(req[w])
          /\ Finished(req[w])

\* C37: SignatureHelper.is_signature_expired(timestamp, max_age) with max_age
\* the server's window agrees with the server's check of the timestamp: for a
\* request whose three headers are present, it returns true exactly when the
\* server, at the same time, rejects the request with "Request expired" or
\* "Invalid timestamp format".
C37_HelperAgreesWithFreshnessCheck ==
    \A w \in Workers :
        LET rq == req[w]
        IN  (rq.pc # "idle" /\ HeadersPresent(rq)) =>
                (is_signature_expired(rq.ts, signature_window, rq.current_time)
                 <=> validate_headers(rq, rq.current_time).message.text
                        \in {"Request expired", "Invalid timestamp format"})

\* C38: in the in-process store the expiry map and the last-access map have
\* the same keys after every call, whatever cleanup and eviction it made, so
\* that the eviction made by a mark_used that finds the store at capacity
\* removes at least one nonce that was stored.
C38_SameKeysInBothMaps ==
    LET b == last_call.before
    IN  /\ DOMAIN fallback_store.store = DictKeys(fallback_store.access_times)
        /\ Len(fallback_store.access_times) = Cardinality(DOMAIN fallback_store.store)
        /\ (last_call.op = "mark_used" /\ Cardinality(DOMAIN b.store) >= b.max_size) =>
              /\ DOMAIN b.store \ DOMAIN evict_old_entries(b).store # {}
              /\ last_eviction.before = b.access_times
              /\ DictKeys(last_eviction.after) # DictKeys(last_eviction.before)

\* a mark_used found the store, of more than one entry, at capacity and
\* evicted, after a cleanup had run and an is_used had refreshed an entry
C38_Witness ==
    /\ last_call.op = "mark_used"
    /\ last_call.before.max_size > 1
    /\ Cardinality(DOMAIN last_call.before.store) >= last_call.before.max_size
    /\ last_call.before.last_cleanup > 0
    /\ \E n \in DOMAIN last_call.touched : last_call.touched[n].op = "is_used"
====
